---- MODULE Spec2Model ----
(***************************************************************************)
(* A model of the SQL statement builders of brunotm/norm (package          *)
(* statement, with internal/buffer and internal/scan).                     *)
(*                                                                         *)
(* Text is a sequence of atoms.  A keyword the code writes as one literal  *)
(* ("SELECT ", " FROM ") is one atom; a string supplied by the caller (a   *)
(* column, a table, an alias, a query template, a string value) is a       *)
(* sequence of one-character atoms, so that counting and splitting on "?"  *)
(* and doubling of "'" are computed character by character as in the code. *)
(***************************************************************************)
EXTENDS Integers, Sequences, FiniteSets, TLC

VARIABLES
    b,      \* the statement under construction (a builder or a Part)
    pool,   \* internal/buffer: contents of the buffers lying in the sync.Pool
    res,    \* what the last String()/Build() call returned
    hist,   \* the configuration calls made so far, in call order
    sink,   \* the caller's buffer handed to Build
    thr,    \* concurrent renders: per thread, its position in String()
    bufs,   \* concurrent renders: contents of every allocated buffer
    free    \* concurrent renders: buffers lying in the sync.Pool

vars == <<b, pool, res, hist, sink, thr, bufs, free>>

---------------------------------------------------------------------------
(* Bounds of the model *)

MaxCalls == 2       \* configuration calls made on one builder
MaxQueryLen == 3    \* characters of a Part template
MaxValues == 2      \* values of a Part
NumThreads == 2     \* threads calling String concurrently
MaxRenders == 2     \* String calls made by one thread

---------------------------------------------------------------------------
(* Strings *)

\* byte value of a character, the order sort.Strings and "<" compare by
Ord(c) ==
    CASE c = "'" -> 39
      [] c = "?" -> 63
      [] c = "a" -> 97
      [] c = "b" -> 98
      [] c = "c" -> 99
      [] c = "t" -> 116
      [] c = "w" -> 119
      [] OTHER -> 0

\* e evaluated once and named inside F (a let whose value is computed once)
Bind(e, F(_)) == CHOOSE y \in {F(x) : x \in {e}} : TRUE

RECURSIVE StrLess(_, _)
StrLess(x, y) ==
    IF x = <<>> THEN y # <<>>
    ELSE IF y = <<>> THEN FALSE
    ELSE IF Ord(Head(x)) # Ord(Head(y)) THEN Ord(Head(x)) < Ord(Head(y))
    ELSE StrLess(Tail(x), Tail(y))

RECURSIVE InsertSorted(_, _)
InsertSorted(s0, x) ==
    Bind(s0, LAMBDA s :
        IF s = <<>> THEN <<x>>
        ELSE IF StrLess(x, Head(s)) THEN <<x>> \o s
        ELSE <<Head(s)>> \o InsertSorted(Tail(s), x))

RECURSIVE SortStringsFrom(_)
SortStringsFrom(keys) ==
    IF keys = <<>> THEN <<>>
    ELSE InsertSorted(SortStringsFrom(Tail(keys)), Head(keys))

\* a plausible slip: the keys are used in map iteration order
SortStringsSkipped(keys) == keys

\* sort.Strings
SortStrings(keys) == SortStringsFrom(keys)

RECURSIVE JoinFrom(_, _, _)
JoinFrom(strs, i, sep) ==
    IF i > Len(strs) THEN <<>>
    ELSE (IF i > 1 THEN sep ELSE <<>>) \o strs[i] \o JoinFrom(strs, i + 1, sep)

\* strings.Join
Join(strs, sep) == JoinFrom(strs, 1, sep)

\* strings.Count(s, "?")
CountQ(s) == Cardinality({i \in 1..Len(s) : s[i] = "?"})

\* strings.Index(s, "?"), 1-based, 0 when absent
IndexQ(s) ==
    IF \E i \in 1..Len(s) : s[i] = "?"
    THEN CHOOSE i \in 1..Len(s) : s[i] = "?" /\ \A j \in 1..(i - 1) : s[j] # "?"
    ELSE 0

DigitChar(d) ==
    CASE d = 0 -> "0" [] d = 1 -> "1" [] d = 2 -> "2" [] d = 3 -> "3"
      [] d = 4 -> "4" [] d = 5 -> "5" [] d = 6 -> "6" [] d = 7 -> "7"
      [] d = 8 -> "8" [] d = 9 -> "9"

RECURSIVE Digits(_)
Digits(n) ==
    IF n < 10 THEN <<DigitChar(n)>>
    ELSE Digits(n \div 10) \o <<DigitChar(n % 10)>>

\* strconv.FormatInt(n, 10) and fmt's %d
FormatInt(n) == IF n < 0 THEN <<"-">> \o Digits(-n) ELSE Digits(n)

RECURSIVE ReplaceQuotes(_)
ReplaceQuotes(s) ==
    IF s = <<>> THEN <<>>
    ELSE (IF Head(s) = "'" THEN <<"'", "'">> ELSE <<Head(s)>>) \o ReplaceQuotes(Tail(s))

\* a plausible slip: the quotes of the string are not doubled
quoteStringRaw(str) == <<"'">> \o str \o <<"'">>

quoteString(str) == <<"'">> \o ReplaceQuotes(str) \o <<"'">>

---------------------------------------------------------------------------
(* Values: the dynamic type of an interface{} argument *)

NilV == [t |-> "nil"]
IntV(w, n) == [t |-> "int", w |-> w, i |-> n]
StrV(s) == [t |-> "str", s |-> s]
BoolV(x) == [t |-> "bool", bl |-> x]
StmtV(st) == [t |-> "stmt", st |-> st]
SliceV(xs) == [t |-> "slice", xs |-> xs]
PtrV(v) == [t |-> "ptr", p |-> v]
BadV == [t |-> "struct"]

SignedKinds == {"int", "int8", "int16", "int32", "int64"}

\* results of a Build: the sink after the call and the error returned
ErrNil == "nil"
ErrInvalidArgNumber == "ErrInvalidArgNumber"
ErrEmptyWithAlias == "ErrEmptyWithAlias"
ErrInvalidArgType == "invalid arg type"
Panic == "panic"

Ok(buf) == [buf |-> buf, err |-> ErrNil]
Fail(buf, e) == [buf |-> buf, err |-> e]

\* a buf.WriteString reached only when no earlier statement returned
Wr(r0, s) ==
    Bind(r0, LAMBDA r : IF r.err = ErrNil THEN [r EXCEPT !.buf = @ \o s] ELSE r)

writeValue(buf, arg, keyword) ==
    CASE arg.t = "nil" -> Ok(buf \o <<"null">>)
      [] arg.t = "int" /\ arg.w \in SignedKinds -> Ok(buf \o FormatInt(arg.i))
      [] arg.t = "bool" -> Ok(buf \o <<IF arg.bl THEN "true" ELSE "false">>)
      [] arg.t = "str" ->
            IF keyword THEN Ok(buf \o arg.s) ELSE Ok(buf \o quoteString(arg.s))
      [] OTHER -> Fail(buf, ErrInvalidArgType)

---------------------------------------------------------------------------
(* Statements *)

NoStmt == [k |-> "nil"]

Part(q, values) == [k |-> "part", Query |-> q, Values |-> values]

RECURSIVE Build(_, _)

RECURSIVE PartLoop(_, _, _, _, _)
PartLoop(query0, values, valueIdx, buf0, keyword) ==
    Bind(<<query0, buf0, IndexQ(query0)>>, LAMBDA in :
        LET query == in[1]
            buf == in[2]
            idx == in[3]
        IN
        IF idx = 0 THEN Ok(buf \o query)
        ELSE
            LET buf1 == buf \o SubSeq(query, 1, idx - 1)
                rest == SubSeq(query, idx + 1, Len(query))
                arg == values[valueIdx]
            IN  Bind(IF arg.t = "stmt"
                     THEN Bind(Build(arg.st, buf1 \o <<"(">>), LAMBDA inner :
                              IF inner.err = Panic THEN inner
                              ELSE [inner EXCEPT !.buf = @ \o <<")">>])
                     ELSE writeValue(buf1, arg, keyword),
                     LAMBDA r :
                         IF r.err # ErrNil THEN r
                         ELSE PartLoop(rest, values, valueIdx + 1, r.buf, keyword)))

\* a plausible slip: the argument count is not checked before writing
\* (a missing value is then rendered as null)
PartBuildUnchecked(p, buf, keyword) ==
    PartLoop(p.Query, p.Values \o [i \in 1..CountQ(p.Query) |-> NilV], 1, buf, keyword)

\* Part.build
PartBuild(p, buf, keyword) ==
    IF CountQ(p.Query) # Len(p.Values)
    THEN Fail(buf, ErrInvalidArgNumber)
    ELSE PartLoop(p.Query, p.Values, 1, buf, keyword)

RECURSIVE BuildEach(_, _, _, _, _, _)
\* the loops "for x := 0; x < len(stmts); x++" of the builders: write the
\* separator, build stmts[x] and return on its error, write what follows
BuildEach(stmts, x, r0, first, rest, after) ==
    Bind(r0, LAMBDA r :
        IF r.err # ErrNil \/ x > Len(stmts) THEN r
        ELSE LET pre == r.buf \o (IF x = 1 THEN first ELSE rest)
             IN  BuildEach(stmts, x + 1, Wr(Build(stmts[x], pre), after),
                           first, rest, after))

BuildComments(comment, r) == BuildEach(comment, 1, r, <<>>, <<>>, <<"\n">>)

\* a plausible slip: every condition is introduced by WHERE
buildWhereNoAnd(buf, where) ==
    BuildEach(where, 1, Ok(buf), <<" WHERE ">>, <<" WHERE ">>, <<>>)

\* buildWhere
buildWhere(buf, where) == BuildEach(where, 1, Ok(buf), <<" WHERE ">>, <<" AND ">>, <<>>)

\* a plausible slip: the alias is not checked
withBuildUnchecked(s, buf) ==
    Wr(Build(s.stmt, buf \o <<"WITH ">> \o s.alias \o <<" AS (">>), <<")">>)

\* with.Build
withBuild(s, buf) ==
    IF s.alias = <<>> THEN Fail(buf, ErrEmptyWithAlias)
    ELSE LET w == IF s.recursive THEN "WITH RECURSIVE " ELSE "WITH "
         IN  Wr(Build(s.stmt, buf \o <<w>> \o s.alias \o <<" AS (">>), <<")">>)

\* union.Build
unionBuild(s, buf) ==
    Build(s.stmt, buf \o <<IF s.all THEN "UNION ALL " ELSE "UNION ">>)

\* "if s.with != nil { if err = s.with.Build(buf) ...; buf.WriteString(" ") }"
BuildWith(w, r0) ==
    Bind(r0, LAMBDA r :
        IF r.err # ErrNil \/ w = NoStmt THEN r ELSE Wr(Build(w, r.buf), <<" ">>))

\* a plausible slip: an error of an earlier clause is not returned
BuildWhereUnchecked(where, r0) == buildWhere(r0.buf, where)

\* "if err = buildWhere(buf, s.where); err != nil { return err }"
BuildWhere(where, r0) ==
    Bind(r0, LAMBDA r : IF r.err # ErrNil THEN r ELSE buildWhere(r.buf, where))

Returning(returning, r) ==
    IF Len(returning) > 0
    THEN Wr(r, <<" RETURNING ">> \o Join(returning, <<",">>))
    ELSE r

---------------------------------------------------------------------------
(* WHERE IN *)

\* scan.IsSlice: reflect.TypeOf(nil) is the nil Type, whose Kind() panics
IsSlice(v) ==
    CASE v.t = "nil" -> "panic"
      [] v.t = "ptr" -> IF v.p.t = "slice" THEN "true" ELSE "false"
      [] v.t = "slice" -> "true"
      [] OTHER -> "false"

\* InterfaceSlice: panics when the value's own kind is not a slice
InterfaceSlice(slice) ==
    IF slice.t = "slice" THEN [panic |-> FALSE, xs |-> slice.xs]
    ELSE [panic |-> TRUE, xs |-> <<>>]

RECURSIVE Placeholders(_)
Placeholders(n) ==
    IF n = 0 THEN <<>>
    ELSE IF n = 1 THEN <<"?">>
    ELSE Placeholders(n - 1) \o <<",", "?">>

\* a plausible slip: a lone statement is not given the parentheses of the list
buildWhereInBare(column, values, buf0) ==
    LET one == Len(values) = 1
        sl == IF one THEN IsSlice(values[1]) ELSE "false"
        flat == IF sl = "true" THEN InterfaceSlice(values[1])
                ELSE [panic |-> sl = "panic", xs |-> values]
        list == IF one /\ values[1].t = "stmt" THEN <<" IN ", "?">>
                ELSE <<" IN (">> \o Placeholders(Len(flat.xs)) \o <<")">>
    IN  IF flat.panic THEN [panic |-> TRUE, part |-> NoStmt]
        ELSE [panic |-> FALSE, part |-> Part(buf0 \o column \o list, flat.xs)]

\* buildWhereIn; buf0 is the content of the buffer buffer.New() returned
buildWhereIn(column, values, buf0) ==
    LET one == Len(values) = 1
        sl == IF one THEN IsSlice(values[1]) ELSE "false"
        flat == IF sl = "true" THEN InterfaceSlice(values[1])
                ELSE [panic |-> sl = "panic", xs |-> values]
    IN  IF flat.panic THEN [panic |-> TRUE, part |-> NoStmt]
        ELSE [panic |-> FALSE,
              part |-> Part(buf0 \o column \o <<" IN (">> \o Placeholders(Len(flat.xs)) \o <<")">>,
                            flat.xs)]

---------------------------------------------------------------------------
(* SELECT *)

Select ==
    [k |-> "select", limitCount |-> 0, offsetCount |-> 0, order |-> "",
     isDistinct |-> FALSE, isForUpdate |-> FALSE, isSkipLocked |-> FALSE,
     tableStatement |-> FALSE, with |-> NoStmt, union |-> NoStmt, table |-> NoStmt,
     columns |-> <<>>, groupBy |-> <<>>, orderBy |-> <<>>, comment |-> <<>>,
     join |-> <<>>, where |-> <<>>, having |-> <<>>]

RECURSIVE BuildColumns(_, _, _)
BuildColumns(cols, x, r0) ==
    Bind(r0, LAMBDA r :
        IF r.err # ErrNil \/ x > Len(cols) THEN r
        ELSE LET pre == r.buf \o (IF x > 1 THEN <<",">> ELSE <<>>)
                 c == cols[x]
             IN  BuildColumns(cols, x + 1,
                     CASE c.t = "stmt" -> Build(c.st, pre)
                       [] c.t = "str" -> Ok(pre \o c.s)
                       [] OTHER -> Ok(pre)))

BuildFrom(s, r0) ==
    Bind(r0, LAMBDA r :
        IF r.err # ErrNil \/ s.table = NoStmt THEN r
        ELSE IF s.tableStatement
        THEN Bind(Build(s.table, r.buf \o <<" FROM ", "( ">>), LAMBDA r1 :
                 IF r1.err = Panic THEN r1 ELSE [r1 EXCEPT !.buf = @ \o <<" )">>])
        ELSE Build(s.table, r.buf \o <<" FROM ">>))

BuildGroupBy(s, r) ==
    IF Len(s.groupBy) > 0
    THEN Wr(r, <<" GROUP BY ">> \o Join(s.groupBy, <<",">>))
    ELSE r

BuildOrderBy(s, r) ==
    IF Len(s.orderBy) > 0
    THEN Wr(r, <<" ORDER BY ">> \o Join(s.orderBy, <<",">>) \o <<" ", s.order>>)
    ELSE r

\* a plausible slip: the limit is rendered whenever it is not zero
BuildLimitNonZero(s, r) ==
    IF s.limitCount # 0
    THEN Wr(r, <<" LIMIT ">> \o FormatInt(s.limitCount)
               \o <<" OFFSET ">> \o FormatInt(s.offsetCount))
    ELSE r

BuildLimit(s, r) ==
    IF s.limitCount > 0
    THEN Wr(r, <<" LIMIT ">> \o FormatInt(s.limitCount)
               \o <<" OFFSET ">> \o FormatInt(s.offsetCount))
    ELSE r

BuildLocks(s, r) ==
    Wr(Wr(r, IF s.isForUpdate THEN <<" FOR UPDATE">> ELSE <<>>),
       IF s.isSkipLocked THEN <<" SKIP LOCKED">> ELSE <<>>)

BuildUnion(s, r0) ==
    Bind(r0, LAMBDA r :
        IF r.err # ErrNil \/ s.union = NoStmt THEN r
        ELSE Build(s.union, r.buf \o <<" ">>))

\* a plausible slip: WHERE is written before FROM and the joins
SelectBuildWhereFirst(s, buf) ==
    LET r1 == BuildComments(s.comment, Ok(buf))
        r2 == BuildWith(s.with, r1)
        r3 == Wr(Wr(r2, <<"SELECT ">>), IF s.isDistinct THEN <<"DISTINCT ">> ELSE <<>>)
        r4 == BuildColumns(s.columns, 1, r3)
        r5 == BuildWhere(s.where, r4)
        r6 == BuildFrom(s, r5)
        r7 == BuildEach(s.join, 1, r6, <<" ">>, <<" ">>, <<>>)
        r8 == BuildGroupBy(s, r7)
        r9 == BuildEach(s.having, 1, r8, <<" HAVING ">>, <<" AND ">>, <<>>)
    IN  BuildUnion(s, BuildLocks(s, BuildLimit(s, BuildOrderBy(s, r9))))

\* SelectStatement.Build
SelectBuild(s, buf) ==
    LET r1 == BuildComments(s.comment, Ok(buf))
        r2 == BuildWith(s.with, r1)
        r3 == Wr(Wr(r2, <<"SELECT ">>), IF s.isDistinct THEN <<"DISTINCT ">> ELSE <<>>)
        r4 == BuildColumns(s.columns, 1, r3)
        r5 == BuildFrom(s, r4)
        r6 == BuildEach(s.join, 1, r5, <<" ">>, <<" ">>, <<>>)
        r7 == BuildWhere(s.where, r6)
        r8 == BuildGroupBy(s, r7)
        r9 == BuildEach(s.having, 1, r8, <<" HAVING ">>, <<" AND ">>, <<>>)
    IN  BuildUnion(s, BuildLocks(s, BuildLimit(s, BuildOrderBy(s, r9))))

---------------------------------------------------------------------------
(* INSERT *)

Insert ==
    [k |-> "insert", table |-> <<>>, columns |-> <<>>, values |-> <<>>,
     comment |-> <<>>, valuesSelect |-> NoStmt, with |-> NoStmt,
     onConflict |-> NoStmt, returning |-> <<>>]

RECURSIVE BuildValues(_, _, _)
\* "for x := 0; x < len(s.values); x++ { s.values[0].Build(buf) }"
BuildValues(values, x, r0) ==
    Bind(r0, LAMBDA r :
        IF r.err # ErrNil \/ x > Len(values) THEN r
        ELSE BuildValues(values, x + 1, Build(values[1], r.buf)))

BuildValuesClause(s, r0) ==
    Bind(r0, LAMBDA r :
        IF r.err # ErrNil THEN r
        ELSE IF s.valuesSelect # NoStmt
        THEN Wr(Build(s.valuesSelect, r.buf \o <<" (">>), <<")">>)
        ELSE BuildValues(s.values, 1, Ok(r.buf \o <<" VALUES ">>)))

BuildOnConflict(s, r0) ==
    Bind(r0, LAMBDA r :
        IF r.err # ErrNil \/ s.onConflict = NoStmt THEN r
        ELSE Build(s.onConflict, r.buf \o <<" ">>))

\* InsertStatement.Build
InsertBuild(s, buf) ==
    LET r1 == BuildComments(s.comment, Ok(buf))
        r2 == BuildWith(s.with, r1)
        r3 == Wr(r2, <<"INSERT INTO ">> \o s.table \o <<"(">>
                     \o Join(s.columns, <<",">>) \o <<")">>)
        r4 == BuildValuesClause(s, r3)
        r5 == BuildOnConflict(s, r4)
    IN  Returning(s.returning, r5)

---------------------------------------------------------------------------
(* UPDATE *)

Update ==
    [k |-> "update", table |-> <<>>, with |-> NoStmt, values |-> <<>>,
     where |-> <<>>, comment |-> <<>>, returning |-> <<>>]

\* the orders in which "for k := range m" may enumerate the keys of a map
KeyOrders(m) ==
    LET n == Cardinality(DOMAIN m) IN
    {o \in [1..n -> DOMAIN m] : \A i, j \in 1..n : i # j => o[i] # o[j]}

MapSet(m, key, value) ==
    [c \in (DOMAIN m) \cup {key} |-> IF c = key THEN value ELSE m[c]]

RECURSIVE BuildSet(_, _, _, _)
BuildSet(values, sorted, x, r0) ==
    Bind(r0, LAMBDA r :
        IF r.err # ErrNil \/ x > Len(sorted) THEN r
        ELSE LET pre == r.buf \o (IF x > 1 THEN <<",">> ELSE <<>>)
                              \o <<" ">> \o sorted[x] \o <<" = ">>
             IN  BuildSet(values, sorted, x + 1,
                          writeValue(pre, values[sorted[x]], FALSE)))

\* UpdateStatement.Build once the keys are collected and sorted
UpdateBuildSorted(s, buf, sorted) ==
    LET r1 == BuildComments(s.comment, Ok(buf))
        r2 == BuildWith(s.with, r1)
        r3 == Wr(r2, <<"UPDATE ">> \o s.table \o <<" SET">>)
        r4 == BuildSet(s.values, sorted, 1, r3)
        r5 == BuildWhere(s.where, r4)
    IN  Returning(s.returning, r5)

\* UpdateStatement.Build; iter is the order in which the map is ranged over
UpdateBuild(s, buf, iter) ==
    Bind(SortStrings(iter), LAMBDA sorted : UpdateBuildSorted(s, buf, sorted))

---------------------------------------------------------------------------
(* DELETE and DDL *)

Delete ==
    [k |-> "delete", table |-> <<>>, with |-> NoStmt, where |-> <<>>,
     comment |-> <<>>, returning |-> <<>>]

\* DeleteStatement.Build
DeleteBuild(s, buf) ==
    LET r1 == BuildComments(s.comment, Ok(buf))
        r2 == BuildWith(s.with, r1)
        r3 == Wr(r2, <<"DELETE FROM ">> \o s.table)
    IN  Returning(s.returning, BuildWhere(s.where, r3))

\* Create, Alter, Drop, Truncate; buf0 is the content of the buffer New() returned
DDL(keyword, query, values, buf0) ==
    [k |-> "ddl", comment |-> <<>>, Query |-> buf0 \o <<keyword>> \o query,
     Values |-> values]

\* a plausible slip: the body is built like any other Part
DDLBuildQuoted(s, buf) ==
    Bind(BuildComments(s.comment, Ok(buf)), LAMBDA r1 :
        IF r1.err # ErrNil THEN r1 ELSE PartBuild(s, r1.buf, FALSE))

\* DDL.Build
DDLBuild(s, buf) ==
    Bind(BuildComments(s.comment, Ok(buf)), LAMBDA r1 :
        IF r1.err # ErrNil THEN r1 ELSE PartBuild(s, r1.buf, TRUE))

---------------------------------------------------------------------------
(* The Statement interface: dynamic dispatch of Build *)

Build(stmt, buf) ==
    CASE stmt.k = "part" -> PartBuild(stmt, buf, FALSE)
      [] stmt.k = "with" -> withBuild(stmt, buf)
      [] stmt.k = "union" -> unionBuild(stmt, buf)
      [] stmt.k = "select" -> SelectBuild(stmt, buf)
      [] stmt.k = "insert" -> InsertBuild(stmt, buf)
      [] stmt.k = "delete" -> DeleteBuild(stmt, buf)
      [] stmt.k = "ddl" -> DDLBuild(stmt, buf)
      [] stmt.k = "nil" -> Fail(buf, Panic)

\* Build of the statement in b; only an Update ranges over a map
Render(stmt, buf, iter) ==
    IF stmt.k = "update" THEN UpdateBuild(stmt, buf, iter) ELSE Build(stmt, buf)

---------------------------------------------------------------------------
(* internal/buffer *)

\* pool.Get(): a pooled buffer when there is one, else pool.New's empty buffer
BufNew(pl) ==
    IF pl = <<>> THEN [buf |-> <<>>, pool |-> <<>>]
    ELSE [buf |-> Head(pl), pool |-> Tail(pl)]

\* a plausible slip: the buffer goes back to the pool with its content
ReleaseDirty(pl, buf) == <<buf>> \o pl

\* Buffer.Release: "b.buf = b.buf[:0]; pool.Put(b)"
Release(pl, buf) == <<SubSeq(buf, 1, 0)>> \o pl

\* String() of every statement: New, defer Release, Build, buf.String()
String(stmt, pl, iter) ==
    LET nb == BufNew(pl)
    IN  Bind(Render(stmt, nb.buf, iter), LAMBDA r :
            [q |-> IF r.err = ErrNil THEN r.buf ELSE <<>>,
             err |-> r.err,
             built |-> r.buf,
             pool |-> Release(nb.pool, r.buf)])

---------------------------------------------------------------------------
(* Inputs of the configuration calls *)

A == <<"a">>
AB == <<"a", "b">>
B == <<"b">>
T == <<"t">>
W == <<"w">>
Q0 == <<"c">>           \* a template without placeholder
Q1 == <<"c", "?">>      \* a template with one placeholder

Int7 == IntV("int", 7)
StrQ == StrV(<<"a", "'">>)

PartBad == Part(Q1, <<>>)
InnerSel == [Select EXCEPT !.columns = <<StrV(A)>>, !.table = Part(T, <<>>)]

\* a Select whose condition lacks its value: it fails two levels down
BadSel == [InnerSel EXCEPT !.where = <<PartBad>>]

\* the statements nested into a builder: valid, invalid and absent
Stmts == {InnerSel, BadSel, NoStmt}

\* a template with its values: matching, and one value short
QV == {[q |-> Q0, v |-> <<>>], [q |-> Q1, v |-> <<Int7>>], [q |-> Q1, v |-> <<>>]}
QVW == QV \cup {[q |-> Q1, v |-> <<StmtV(InnerSel)>>], [q |-> Q1, v |-> <<StrQ>>]}
QVC == QV \cup {[q |-> Q1, v |-> <<StrQ>>]}

ColLists == {<<>>, <<A>>, <<B, A>>}
InLists == {<<>>, <<Int7>>, <<Int7, StrQ>>, <<StmtV(InnerSel)>>, <<SliceV(<<Int7, StrQ>>)>>}
Joins == {"INNER JOIN", "LEFT OUTER JOIN", "RIGHT OUTER JOIN", "FULL OUTER JOIN"}
Limits == {-1, 0, 12}
Offsets == {-1, 3}
SetValues == {Int7, StrQ, StmtV(InnerSel)}
Maps == {(B :> Int7) @@ (A :> StrQ), (AB :> Int7) @@ (B :> StrQ) @@ (A :> NilV)}
Keywords == {"CREATE ", "ALTER ", "DROP ", "TRUNCATE "}

\* built is what Build left in the buffer when it returned
NoResult == [done |-> FALSE, q |-> <<>>, err |-> ErrNil, built |-> <<>>]

---------------------------------------------------------------------------
(* The builders: construction, configuration calls, String *)

Init ==
    /\ b = NoStmt
    /\ pool = <<>>
    /\ res = NoResult
    /\ hist = <<>>
    /\ sink = <<>>
    /\ thr = <<>>
    /\ bufs = <<>>
    /\ free = {}

Is(kinds) == b.k \in kinds

\* a configuration method may be called on the builder in b
CanCall(kinds) == Len(hist) < MaxCalls /\ Is(kinds)

\* a configuration call: b and pool are set by the caller
Call(entry) ==
    /\ hist' = Append(hist, entry)
    /\ res' = NoResult
    /\ UNCHANGED <<sink, thr, bufs, free>>

\* Select(), Insert(), Update(), Delete()
New ==
    /\ b = NoStmt
    /\ b' \in {Select, Insert, Update, Delete}
    /\ UNCHANGED <<pool, res, hist, sink, thr, bufs, free>>

\* Create, Alter, Drop, Truncate
NewDDL ==
    /\ b = NoStmt
    /\ \E kw \in Keywords, x \in QVC :
         LET nb == BufNew(pool)
             d == DDL(kw, x.q, x.v, nb.buf)
         IN  b' = d /\ pool' = Release(nb.pool, d.Query)
    /\ UNCHANGED <<res, hist, sink, thr, bufs, free>>

Comment ==
    /\ CanCall({"select", "insert", "update", "delete", "ddl"})
    /\ \E x \in QVC :
         LET nb == BufNew(pool)
             q == nb.buf \o <<"-- ">> \o x.q
         IN  /\ b' = [b EXCEPT !.comment = Append(@, Part(q, x.v))]
             /\ pool' = Release(nb.pool, q)
             /\ Call([op |-> "Comment", x |-> x])

With ==
    /\ CanCall({"select", "insert", "update", "delete"})
    /\ \E alias \in {<<>>, W}, stmt \in Stmts :
         b' = [b EXCEPT !.with = [k |-> "with", recursive |-> FALSE,
                                  alias |-> alias, stmt |-> stmt]]
    /\ Call([op |-> "With"])
    /\ UNCHANGED pool

WithRecursive ==
    /\ CanCall({"select"})
    /\ \E alias \in {<<>>, W}, stmt \in {InnerSel} :
         b' = [b EXCEPT !.with = [k |-> "with", recursive |-> TRUE,
                                  alias |-> alias, stmt |-> stmt]]
    /\ Call([op |-> "With"])
    /\ UNCHANGED pool

Where ==
    /\ CanCall({"select", "update", "delete"})
    /\ \E x \in QVW :
         /\ b' = [b EXCEPT !.where = Append(@, Part(x.q, x.v))]
         /\ Call([op |-> "Where", x |-> x])
    /\ UNCHANGED pool

WhereIn ==
    /\ CanCall({"select", "update", "delete"})
    /\ \E values \in InLists :
         LET nb == BufNew(pool)
             p == buildWhereIn(A, values, nb.buf).part
         IN  /\ b' = [b EXCEPT !.where = Append(@, p)]
             /\ pool' = Release(nb.pool, p.Query)
             /\ Call([op |-> "Where", in |-> values])

\* Insert.Into, Update.Table, Delete.From
Table ==
    /\ CanCall({"insert", "update", "delete"})
    /\ b' = [b EXCEPT !.table = T]
    /\ Call([op |-> "Table"])
    /\ UNCHANGED pool

ReturningCall ==
    /\ CanCall({"insert", "update", "delete"})
    /\ \E cols \in ColLists : b' = [b EXCEPT !.returning = cols]
    /\ Call([op |-> "Returning"])
    /\ UNCHANGED pool

(* SelectStatement *)

Columns ==
    /\ CanCall({"select"})
    /\ \E cols \in ColLists :
         b' = [b EXCEPT !.columns = [i \in 1..Len(cols) |-> StrV(cols[i])]]
    /\ Call([op |-> "Columns"])
    /\ UNCHANGED pool

Column ==
    /\ CanCall({"select"})
    /\ \E x \in QV : b' = [b EXCEPT !.columns = Append(@, StmtV(Part(x.q, x.v)))]
    /\ Call([op |-> "Columns"])
    /\ UNCHANGED pool

From ==
    /\ CanCall({"select"})
    /\ \E table \in {StrV(T), StmtV(InnerSel), Int7} :
         b' = CASE table.t = "stmt" ->
                     [b EXCEPT !.tableStatement = TRUE, !.table = table.st]
                [] table.t = "str" -> [b EXCEPT !.table = Part(table.s, <<>>)]
                [] OTHER -> b
    /\ Call([op |-> "From"])
    /\ UNCHANGED pool

JoinCall ==
    /\ CanCall({"select"})
    /\ \E join \in Joins, x \in {y \in QV : Len(y.v) = CountQ(y.q)} :
         /\ (join = "INNER JOIN" \/ x.v = <<>>)
         /\ LET nb == BufNew(pool)
                q == nb.buf \o <<join, " ">> \o B \o <<" ON ">> \o x.q
            IN  /\ b' = [b EXCEPT !.join = Append(@, Part(q, x.v))]
                /\ pool' = Release(nb.pool, q)
    /\ Call([op |-> "Join"])

Having ==
    /\ CanCall({"select"})
    /\ \E x \in QV : b' = [b EXCEPT !.having = Append(@, Part(x.q, x.v))]
    /\ Call([op |-> "Having"])
    /\ UNCHANGED pool

GroupBy ==
    /\ CanCall({"select"})
    /\ \E cols \in ColLists : b' = [b EXCEPT !.groupBy = @ \o cols]
    /\ Call([op |-> "GroupBy"])
    /\ UNCHANGED pool

OrderAsc ==
    /\ CanCall({"select"})
    /\ \E cols \in {<<>>, <<B, A>>} : b' = [b EXCEPT !.orderBy = cols, !.order = "ASC"]
    /\ Call([op |-> "OrderBy"])
    /\ UNCHANGED pool

OrderDesc ==
    /\ CanCall({"select"})
    /\ \E cols \in {<<>>, <<A>>} : b' = [b EXCEPT !.orderBy = cols, !.order = "DESC"]
    /\ Call([op |-> "OrderBy"])
    /\ UNCHANGED pool

Limit ==
    /\ CanCall({"select"})
    /\ \E n \in Limits :
         /\ b' = [b EXCEPT !.limitCount = n]
         /\ Call([op |-> "Limit", n |-> n])
    /\ UNCHANGED pool

Offset ==
    /\ CanCall({"select"})
    /\ \E n \in Offsets :
         /\ b' = [b EXCEPT !.offsetCount = n]
         /\ Call([op |-> "Offset", n |-> n])
    /\ UNCHANGED pool

Distinct ==
    /\ CanCall({"select"})
    /\ b' = [b EXCEPT !.isDistinct = TRUE]
    /\ Call([op |-> "Distinct"])
    /\ UNCHANGED pool

ForUpdate ==
    /\ CanCall({"select"})
    /\ b' = [b EXCEPT !.isForUpdate = TRUE]
    /\ Call([op |-> "ForUpdate"])
    /\ UNCHANGED pool

SkipLocked ==
    /\ CanCall({"select"})
    /\ b' = [b EXCEPT !.isSkipLocked = TRUE]
    /\ Call([op |-> "SkipLocked"])
    /\ UNCHANGED pool

Union ==
    /\ CanCall({"select"})
    /\ \E stmt \in Stmts :
         b' = [b EXCEPT !.union = [k |-> "union", all |-> FALSE, stmt |-> stmt]]
    /\ Call([op |-> "Union"])
    /\ UNCHANGED pool

UnionAll ==
    /\ CanCall({"select"})
    /\ \E stmt \in {InnerSel} :
         b' = [b EXCEPT !.union = [k |-> "union", all |-> TRUE, stmt |-> stmt]]
    /\ Call([op |-> "Union"])
    /\ UNCHANGED pool

(* InsertStatement *)

InsertColumns ==
    /\ CanCall({"insert"})
    /\ \E cols \in ColLists :
         /\ b' = [b EXCEPT !.columns = cols]
         /\ Call([op |-> "Columns", cols |-> cols])
    /\ UNCHANGED pool

\* InsertStatement.Values on builder s; buf0 is the content of the buffer
\* New() returned.  The new builder and the buffer content at Release.
ValuesOf(s, values, buf0) ==
    LET q == buf0 \o <<"(">> \o Placeholders(Len(values)) \o <<")">>
    IN  [s |-> [s EXCEPT !.values = Append(@, Part(q, values))], buf |-> q]

Values ==
    /\ CanCall({"insert"})
    /\ \E values \in {<<>>, <<Int7>>, <<StrQ>>, <<Int7, StrQ>>, <<StmtV(InnerSel)>>} :
         LET nb == BufNew(pool)
             v == ValuesOf(b, values, nb.buf)
         IN  b' = v.s /\ pool' = Release(nb.pool, v.buf)
    /\ Call([op |-> "Values"])

\* InsertStatement.Record of a struct whose db columns and field values are
\* fields; iter is the order in which the map of scan.StructMap is ranged over
RecordOf(s, fields, iter) ==
    LET cols == IF Len(s.columns) = 0 THEN SortStrings(iter) ELSE s.columns
    IN  [cols |-> cols,
         value |-> [i \in 1..Len(cols) |->
                      IF cols[i] \in DOMAIN fields THEN fields[cols[i]] ELSE NilV]]

Record ==
    /\ CanCall({"insert"})
    /\ \E fields \in Maps : \E iter \in KeyOrders(fields) :
         LET rec == RecordOf(b, fields, iter)
             nb == BufNew(pool)
             v == ValuesOf([b EXCEPT !.columns = rec.cols], rec.value, nb.buf)
         IN  /\ b' = v.s
             /\ pool' = Release(nb.pool, v.buf)
             /\ Call([op |-> "Record", order |-> iter])

ValuesSelect ==
    /\ CanCall({"insert"})
    /\ \E sel \in {NoStmt, InnerSel} : b' = [b EXCEPT !.valuesSelect = sel]
    /\ Call([op |-> "ValuesSelect"])
    /\ UNCHANGED pool

OnConflict ==
    /\ CanCall({"insert"})
    /\ \E x \in QV :
         LET nb == BufNew(pool)
             q == nb.buf \o <<"ON CONFLICT ">> \o x.q
         IN  /\ b' = [b EXCEPT !.onConflict = Part(q, x.v)]
             /\ pool' = Release(nb.pool, q)
    /\ Call([op |-> "OnConflict"])

RECURSIVE ConflictSet(_, _)
ConflictSet(sorted, x) ==
    IF x > Len(sorted) THEN <<>>
    ELSE <<IF x > 1 THEN ", " ELSE " ">> \o sorted[x] \o <<" = ", "?">>
         \o ConflictSet(sorted, x + 1)

\* the part InsertStatement.OnConflictUpdate builds
OnConflictUpdateOf(constraint, actions, iter) ==
    LET sorted == SortStrings(iter)
    IN  Part(<<"ON CONFLICT ON CONSTRAINT ">> \o constraint \o <<" DO UPDATE SET">>
                 \o ConflictSet(sorted, 1),
             [i \in 1..Len(sorted) |-> actions[sorted[i]]])

OnConflictUpdate ==
    /\ CanCall({"insert"})
    /\ \E actions \in Maps : \E iter \in KeyOrders(actions) :
         /\ b' = [b EXCEPT !.onConflict = OnConflictUpdateOf(W, actions, iter)]
         /\ Call([op |-> "OnConflictUpdate", order |-> iter])
    /\ UNCHANGED pool

(* UpdateStatement *)

Set ==
    /\ CanCall({"update"})
    /\ \E column \in {A, AB, B}, value \in SetValues :
         /\ b' = [b EXCEPT !.values = MapSet(@, column, value)]
         /\ Call([op |-> "Set", order |-> <<column>>])
    /\ UNCHANGED pool

RECURSIVE SetAll(_, _, _)
SetAll(values, m, iter) ==
    IF iter = <<>> THEN values
    ELSE SetAll(MapSet(values, Head(iter), m[Head(iter)]), m, Tail(iter))

SetMap ==
    /\ CanCall({"update"})
    /\ \E m \in Maps : \E iter \in KeyOrders(m) :
         /\ b' = [b EXCEPT !.values = SetAll(@, m, iter)]
         /\ Call([op |-> "Set", order |-> iter])
    /\ UNCHANGED pool

(* String() of the statement built so far *)

IterOrders == IF b.k = "update" THEN KeyOrders(b.values) ELSE {<<>>}

StringCall ==
    /\ b # NoStmt
    /\ \E iter \in IterOrders :
         \E s \in {String(b, pool, iter)} :
             /\ res' = [done |-> TRUE, q |-> s.q, err |-> s.err, built |-> s.built]
             /\ pool' = s.pool
    /\ UNCHANGED <<b, hist, sink, thr, bufs, free>>

Next ==
    \/ New \/ NewDDL \/ Comment \/ With \/ WithRecursive \/ Where \/ WhereIn
    \/ Table \/ ReturningCall
    \/ Columns \/ Column \/ From \/ JoinCall \/ Having \/ GroupBy \/ OrderAsc
    \/ OrderDesc \/ Limit \/ Offset \/ Distinct \/ ForUpdate \/ SkipLocked
    \/ Union \/ UnionAll
    \/ InsertColumns \/ Values \/ Record \/ ValuesSelect \/ OnConflict
    \/ OnConflictUpdate
    \/ Set \/ SetMap
    \/ StringCall

Spec == Init /\ [][Next]_vars

---------------------------------------------------------------------------
(* Reading a rendered text and the call history *)

Builders == {"select", "insert", "update", "delete"}

Rendered == res.done /\ res.err = ErrNil

Has(op) == \E i \in 1..Len(hist) : hist[i].op = op

LastCall == hist[Len(hist)]

\* the argument of the last call of op, 0 when op was never called
LastArg(op) ==
    LET idx == {i \in 1..Len(hist) : hist[i].op = op}
    IN  IF idx = {} THEN 0
        ELSE hist[CHOOSE i \in idx : \A j \in idx : j <= i].n

Range(o) == {o[i] : i \in 1..Len(o)}

\* the columns of S in strictly ascending byte order
Ascending(S) ==
    CHOOSE o \in KeyOrders([c \in S |-> 0]) :
        \A i, j \in 1..Len(o) : i < j => StrLess(o[i], o[j])

Contains(q, pat) ==
    \E i \in 1..(Len(q) - Len(pat) + 1) : SubSeq(q, i, i + Len(pat) - 1) = pat

Count(q, a) == Cardinality({i \in 1..Len(q) : q[i] = a})

Opens == {"(", "( ", " (", " AS (", " IN ("}
Closes == {")", " )"}
Unions == {"UNION ", "UNION ALL "}

\* the atoms of q outside every pair of parentheses, up to the UNION keyword
RECURSIVE TopFrom(_, _, _)
TopFrom(q, i, d) ==
    IF i > Len(q) THEN <<>>
    ELSE IF q[i] \in Opens
    THEN (IF d = 0 THEN <<q[i]>> ELSE <<>>) \o TopFrom(q, i + 1, d + 1)
    ELSE IF q[i] \in Closes
    THEN (IF d = 1 THEN <<q[i]>> ELSE <<>>) \o TopFrom(q, i + 1, d - 1)
    ELSE IF d = 0 /\ q[i] \in Unions THEN <<q[i]>>
    ELSE (IF d = 0 THEN <<q[i]>> ELSE <<>>) \o TopFrom(q, i + 1, d)

TopLevel(q) == TopFrom(q, 1, 0)

\* position of a clause keyword in the order of the documented render steps
ClauseRank(a) ==
    CASE a = "-- " -> 1
      [] a \in {"WITH ", "WITH RECURSIVE "} -> 2
      [] a = "SELECT " -> 3
      [] a = "DISTINCT " -> 4
      [] a = " FROM " -> 6
      [] a \in Joins -> 7
      [] a = " WHERE " -> 8
      [] a = " GROUP BY " -> 9
      [] a = " HAVING " -> 10
      [] a = " ORDER BY " -> 11
      [] a = " LIMIT " -> 12
      [] a = " OFFSET " -> 13
      [] a = " FOR UPDATE" -> 14
      [] a = " SKIP LOCKED" -> 15
      [] a \in Unions -> 16
      [] OTHER -> 0

\* the configuration call that makes a clause keyword appear
ClauseOf(a) ==
    CASE a = "-- " -> "Comment"
      [] a \in {"WITH ", "WITH RECURSIVE "} -> "With"
      [] a = "DISTINCT " -> "Distinct"
      [] a = " FROM " -> "From"
      [] a \in Joins -> "Join"
      [] a = " WHERE " -> "Where"
      [] a = " GROUP BY " -> "GroupBy"
      [] a = " HAVING " -> "Having"
      [] a = " ORDER BY " -> "OrderBy"
      [] a \in {" LIMIT ", " OFFSET "} -> "Limit"
      [] a = " FOR UPDATE" -> "ForUpdate"
      [] a = " SKIP LOCKED" -> "SkipLocked"
      [] a \in Unions -> "Union"
      [] OTHER -> "Select"

ClauseKeywords(q) == SelectSeq(TopLevel(q), LAMBDA a : ClauseRank(a) > 0)

---------------------------------------------------------------------------
(* Properties of the builders *)

\* C2: a WITH clause whose alias is empty fails with ErrEmptyWithAlias
\* whatever its inner statement is and leaves the sink as it was, and every
\* builder configured with it fails to render.
C2_EmptyAliasFails ==
    (Is(Builders) /\ b.with # NoStmt /\ b.with.alias = <<>>) =>
        /\ withBuild(b.with, AB) = Fail(AB, ErrEmptyWithAlias)
        /\ \A iter \in IterOrders :
             LET r == Render(b, <<>>, iter)
             IN  /\ r.err \in {ErrEmptyWithAlias, ErrInvalidArgNumber}
                 /\ (\A i \in 1..Len(b.comment) :
                        CountQ(b.comment[i].Query) = Len(b.comment[i].Values))
                    => r.err = ErrEmptyWithAlias
        /\ res.done => (res.err # ErrNil /\ res.q = <<>>)

C2_Witness ==
    /\ Is(Builders) /\ b.with # NoStmt /\ b.with.alias = <<>>
    /\ b.with.stmt = InnerSel
    /\ res.done /\ res.err = ErrEmptyWithAlias

\* C3: a String call leaves the builder as it was, and a String call that
\* follows a String call with no configuration call in between returns the
\* same text or the same error.
C3_RenderDeterministic ==
    [][/\ res'.done => b' = b
       /\ (res.done /\ res'.done) => res' = res]_vars

C3_Witness ==
    /\ b.k = "update" /\ Cardinality(DOMAIN b.values) >= 2
    /\ Rendered /\ pool # <<>>

\* the Where and WhereIn calls made so far: the i-th made the i-th condition
WhereCalls == SelectSeq(hist, LAMBDA h : h.op = "Where")

\* a WhereIn call whose only value is a nested statement
IsSubIn(h) == "in" \in DOMAIN h /\ Len(h.in) = 1 /\ h.in[1].t = "stmt"

\* the condition of WhereIn(column, sub) with `pairs` pairs of parentheses
InSub(sub, pairs) ==
    A \o <<" IN (">> \o (IF pairs = 2 THEN <<"(">> ELSE <<>>)
      \o Build(sub, <<>>).buf
      \o (IF pairs = 2 THEN <<")">> ELSE <<>>) \o <<")">>

C6_FirstTupleOnce ==
    (b.k = "insert" /\ Len(b.values) >= 1 /\ b.valuesSelect = NoStmt /\ Rendered) =>
        LET at == CHOOSE i \in 1..Len(res.q) : res.q[i] = " VALUES "
            first == Build(b.values[1], <<>>)
        IN  /\ Count(res.q, " VALUES ") = 1
            /\ SubSeq(res.q, at + 1, Len(res.q))
                 = Returning(b.returning, BuildOnConflict(b, first)).buf

\* an Insert with one value tuple, where the statement of C6 does hold
C6_WitnessOne ==
    /\ b.k = "insert" /\ Len(b.values) = 1 /\ b.valuesSelect = NoStmt /\ Rendered
    /\ C6_FirstTupleOnce

\* C7: the columns of a clause derived from a map are rendered in ascending
\* byte order whatever order the map is ranged over and whatever order the
\* entries were set in: the SET clause of an Update, the columns of
\* OnConflictUpdate, and the columns Record infers when none were set.
C7_MapClausesSorted ==
    /\ b.k = "update" =>
         LET want == UpdateBuildSorted(b, <<>>, Ascending(DOMAIN b.values))
         IN  /\ \A iter \in KeyOrders(b.values) : UpdateBuild(b, <<>>, iter) = want
             /\ res.done => (res.err = want.err /\ (Rendered => res.q = want.buf))
    /\ (b.k = "insert" /\ hist # <<>> /\ LastCall.op = "OnConflictUpdate") =>
         b.onConflict.Query
            = <<"ON CONFLICT ON CONSTRAINT ">> \o W \o <<" DO UPDATE SET">>
                \o ConflictSet(Ascending(Range(LastCall.order)), 1)
    /\ (/\ b.k = "insert" /\ hist # <<>> /\ LastCall.op = "Record"
        /\ \A i \in 1..(Len(hist) - 1) :
              /\ hist[i].op # "Record"
              /\ hist[i].op = "Columns" => hist[i].cols = <<>>) =>
         b.columns = Ascending(Range(LastCall.order))

\* two Set calls made in descending column order, then rendered
C7_Witness ==
    /\ b.k = "update" /\ Rendered
    /\ \E i, j \in 1..Len(hist) :
         /\ i < j /\ hist[i].op = "Set" /\ hist[j].op = "Set"
         /\ StrLess(hist[j].order[1], hist[i].order[1])

\* C9: the text of a Select holds its clauses in the fixed order comments,
\* WITH, SELECT, DISTINCT, columns, FROM, joins in call order, WHERE,
\* GROUP BY, HAVING, ORDER BY, LIMIT and OFFSET, FOR UPDATE, SKIP LOCKED,
\* UNION, whatever order the configuration calls were made in; only comments
\* and joins repeat, and a clause no call configured leaves no keyword.
C9_ClauseOrder ==
    (b.k = "select" /\ Rendered) =>
        LET kw == ClauseKeywords(res.q)
            top == TopLevel(res.q)
            sel == CHOOSE i \in 1..Len(top) : top[i] = "SELECT "
            cols == sel + (IF b.isDistinct THEN 1 ELSE 0)
        IN  /\ \A i \in 1..(Len(kw) - 1) :
                 \/ ClauseRank(kw[i]) < ClauseRank(kw[i + 1])
                 \/ /\ ClauseRank(kw[i]) = ClauseRank(kw[i + 1])
                    /\ kw[i] = "-- " \/ kw[i] \in Joins
            /\ Count(kw, "SELECT ") = 1
            /\ \A i \in 1..Len(kw) : kw[i] = "SELECT " \/ Has(ClauseOf(kw[i]))
            /\ SelectSeq(kw, LAMBDA a : a \in Joins)
                 = [i \in 1..Len(b.join) |-> b.join[i].Query[1]]
            /\ (\A i \in 1..Len(b.columns) : b.columns[i].t = "str") =>
                 LET text == Join([i \in 1..Len(b.columns) |-> b.columns[i].s], <<",">>)
                 IN  SubSeq(top, cols + 1, cols + Len(text)) = text

\* WHERE configured before FROM, then rendered
C9_Witness ==
    /\ b.k = "select" /\ Rendered
    /\ \E i, j \in 1..Len(hist) : i < j /\ hist[i].op = "Where" /\ hist[j].op = "From"
    /\ Count(res.q, " WHERE ") = 1 /\ Count(res.q, " FROM ") = 1

\* the text " LIMIT n OFFSET m"
LimitText(n, m) == <<" LIMIT ">> \o FormatInt(n) \o <<" OFFSET ">> \o FormatInt(m)

\* the text of a Select holds " LIMIT n OFFSET m" once when `limited`, and
\* neither keyword otherwise; n and m are the arguments of the last calls
LimitRendered(limited) ==
    LET top == TopLevel(res.q)
    IN  IF limited
        THEN /\ Contains(top, LimitText(LastArg("Limit"), LastArg("Offset")))
             /\ Count(top, " LIMIT ") = 1 /\ Count(top, " OFFSET ") = 1
        ELSE Count(top, " LIMIT ") = 0 /\ Count(top, " OFFSET ") = 0

\* C10 as stated: " LIMIT n OFFSET m" is rendered exactly when the last
\* Limit call set a non-zero n, m being the last Offset value or 0.
C10_NonZeroLimit ==
    (b.k = "select" /\ Rendered) => LimitRendered(LastArg("Limit") # 0)

\* C10 amended: " LIMIT n OFFSET m" is rendered exactly when the last Limit
\* call set a positive n, m being the last Offset value or 0; with no Limit
\* call, or a zero or negative n, neither keyword is rendered.
C10_PositiveLimit ==
    (b.k = "select" /\ Rendered) => LimitRendered(LastArg("Limit") > 0)

\* a positive limit and an offset, then rendered
C10_Witness ==
    /\ b.k = "select" /\ Rendered
    /\ LastArg("Limit") > 0 /\ Has("Offset") /\ LastArg("Offset") > 0

\* the Comment calls made so far, in call order
CommentCalls == SelectSeq(hist, LAMBDA h : h.op = "Comment")

\* the text of a value as a quoted literal, and as a keyword
Quoted(v) ==
    CASE v = Int7 -> <<"7">>
      [] v = StrQ -> <<"'", "a", "'", "'", "'">>
      [] v = StmtV(InnerSel) -> <<"(", "SELECT ", "a", " FROM ", "t", ")">>

Verbatim(v) ==
    CASE v = Int7 -> <<"7">>
      [] v = StrQ -> <<"a", "'">>

\* the template q from its i-th character on, with its "?" replaced in
\* order by texts[k], texts[k+1], ...
RECURSIVE SubstFrom(_, _, _, _)
SubstFrom(q, i, k, texts) ==
    IF i > Len(q) THEN <<>>
    ELSE IF q[i] = "?" THEN texts[k] \o SubstFrom(q, i + 1, k + 1, texts)
    ELSE <<q[i]>> \o SubstFrom(q, i + 1, k, texts)

RECURSIVE CommentLines(_, _)
CommentLines(calls, i) ==
    IF i > Len(calls) THEN <<>>
    ELSE <<"-- ">>
         \o SubstFrom(calls[i].x.q, 1, 1,
                      [j \in 1..Len(calls[i].x.v) |-> Quoted(calls[i].x.v[j])])
         \o <<"\n">> \o CommentLines(calls, i + 1)

Matched(x) == CountQ(x.q) = Len(x.v)

\* C13: a DDL statement renders one line per Comment call, in call order,
\* with string arguments as quoted literals, then its keyword and template
\* with every string argument substituted as it is, unquoted.
C13_DDLKeywordMode ==
    (b.k = "ddl" /\ res.done) =>
        LET ok == /\ CountQ(b.Query) = Len(b.Values)
                  /\ \A i \in 1..Len(CommentCalls) : Matched(CommentCalls[i].x)
        IN  /\ ok <=> res.err = ErrNil
            /\ ok => /\ b.Query[1] \in Keywords
                     /\ res.q = CommentLines(CommentCalls, 1)
                                 \o SubstFrom(b.Query, 1, 1,
                                      [j \in 1..Len(b.Values) |-> Verbatim(b.Values[j])])

\* a DDL with a string argument and a comment with a string argument
C13_Witness ==
    /\ b.k = "ddl" /\ Rendered /\ b.Values = <<StrQ>>
    /\ Len(CommentCalls) = MaxCalls
    /\ \E i \in 1..Len(CommentCalls) : CommentCalls[i].x.v = <<StrQ>>

\* the place of a field in the render order of its builder
FieldRank(f) ==
    CASE f = "k" -> 0
      [] f = "comment" -> 1
      [] f = "with" -> 2
      [] f \in {"isDistinct", "columns"} -> 3
      [] f \in {"table", "tableStatement"} -> 4
      [] f \in {"join", "valuesSelect", "values", "Query", "Values"} -> 5
      [] f = "where" -> 6
      [] f = "groupBy" -> 7
      [] f \in {"having", "onConflict"} -> 8
      [] f \in {"orderBy", "order"} -> 9
      [] f \in {"limitCount", "offsetCount"} -> 10
      [] f \in {"isForUpdate", "isSkipLocked"} -> 11
      [] f = "union" -> 12
      [] f = "returning" -> 13

ErrOf(stmt) == Build(stmt, <<>>).err

SeqClauses(f, stmts) ==
    [i \in 1..Len(stmts) |-> [f |-> f, i |-> i, e |-> ErrOf(stmts[i])]]

OneClause(f, stmt) ==
    IF stmt = NoStmt THEN <<>> ELSE <<[f |-> f, i |-> 0, e |-> ErrOf(stmt)]>>

\* the clauses of a builder that can fail, in render order, each with the
\* outcome of building it alone
Clauses(s) ==
    SeqClauses("comment", s.comment)
    \o (IF s.k = "ddl" THEN <<>> ELSE OneClause("with", s.with))
    \o (CASE s.k = "select" ->
               [i \in 1..Len(s.columns) |->
                   [f |-> "columns", i |-> i,
                    e |-> IF s.columns[i].t = "stmt" THEN ErrOf(s.columns[i].st)
                          ELSE ErrNil]]
               \o OneClause("table", s.table)
               \o SeqClauses("join", s.join)
               \o SeqClauses("where", s.where)
               \o SeqClauses("having", s.having)
               \o OneClause("union", s.union)
          [] s.k = "insert" ->
               (IF s.valuesSelect # NoStmt
                THEN OneClause("valuesSelect", s.valuesSelect)
                ELSE [i \in 1..Len(s.values) |->
                         [f |-> "values", i |-> i, e |-> ErrOf(s.values[1])]])
               \o OneClause("onConflict", s.onConflict)
          [] s.k = "update" ->
               LET sorted == Ascending(DOMAIN s.values)
               IN  [x \in 1..Len(sorted) |->
                       [f |-> "values", i |-> x,
                        e |-> writeValue(<<>>, s.values[sorted[x]], FALSE).err]]
                   \o SeqClauses("where", s.where)
          [] s.k = "delete" -> SeqClauses("where", s.where)
          [] s.k = "ddl" ->
               <<[f |-> "Query", i |-> 0, e |-> PartBuild(s, <<>>, TRUE).err]>>)

\* the first clause that fails, 0 when none does
FirstFailing(cl) ==
    LET bad == {i \in 1..Len(cl) : cl[i].e # ErrNil}
    IN  IF bad = {} THEN 0 ELSE CHOOSE i \in bad : \A j \in bad : i <= j

Fresh(k) ==
    CASE k = "select" -> Select
      [] k = "insert" -> Insert
      [] k = "update" -> Update
      [] k = "delete" -> Delete
      [] k = "ddl" -> [k |-> "ddl", comment |-> <<>>, Query |-> <<>>, Values |-> <<>>]

\* the builder s without anything rendered after its clause c
Truncate(s, c) ==
    [f \in DOMAIN s |->
        IF f = c.f /\ c.i > 0
        THEN IF s.k = "update" /\ f = "values"
             THEN LET sorted == Ascending(DOMAIN s.values)
                  IN  [col \in {sorted[x] : x \in 1..c.i} |-> s.values[col]]
             ELSE SubSeq(s[f], 1, c.i)
        ELSE IF FieldRank(f) > FieldRank(c.f) THEN Fresh(s.k)[f]
        ELSE s[f]]

BuildAlone(s) ==
    IF s.k = "update" THEN UpdateBuildSorted(s, <<>>, Ascending(DOMAIN s.values))
    ELSE Build(s, <<>>)

InnerText == <<"SELECT ", "a", " FROM ", "t">>

HoldsStatement(values) ==
    \E i \in DOMAIN values : values[i].t = "stmt"

\* the builder in b was given a Statement as a value
NestedAsValue ==
    \/ b.k \in {"select", "update", "delete"}
         /\ \E i \in 1..Len(b.where) : HoldsStatement(b.where[i].Values)
    \/ b.k = "insert"
         /\ \E i \in 1..Len(b.values) : HoldsStatement(b.values[i].Values)
    \/ b.k = "update" /\ HoldsStatement(b.values)

\* C15: a Statement given as a value renders as "(" its text ")" in every
\* position that accepts a value, and never yields the error of a value that
\* cannot be encoded.
C15_NestedStatementAnywhere ==
    (res.done /\ NestedAsValue) =>
        /\ res.err # ErrInvalidArgType
        /\ Rendered => Contains(res.q, <<"(">> \o InnerText \o <<")">>)

\* a condition and an inserted tuple holding a Statement render it in
\* parentheses
C15_WitnessWhere ==
    /\ Rendered /\ NestedAsValue /\ b.k \in {"select", "insert"}
    /\ Contains(res.q, <<"(">> \o InnerText \o <<")">>)

\* the condition a Where or WhereIn call stands for
Fragment(h) ==
    IF "x" \in DOMAIN h
    THEN SubstFrom(h.x.q, 1, 1, [j \in 1..Len(h.x.v) |-> Quoted(h.x.v[j])])
    ELSE CASE h.in = <<>> -> <<"a", " IN (", ")">>
           [] h.in = <<Int7>> -> <<"a", " IN (", "7", ")">>
           [] h.in \in {<<Int7, StrQ>>, <<SliceV(<<Int7, StrQ>>)>>} ->
                <<"a", " IN (", "7", ",", "'", "a", "'", "'", "'", ")">>
           [] h.in = <<StmtV(InnerSel)>> ->
                <<"a", " IN (", "(", "SELECT ", "a", " FROM ", "t", ")", ")">>

RECURSIVE Condition(_, _)
\* " WHERE f1 AND f2 AND ... AND fn" for the calls from the i-th on
Condition(calls, i) ==
    IF i > Len(calls) THEN <<>>
    ELSE <<IF i = 1 THEN " WHERE " ELSE " AND ">> \o Fragment(calls[i])
         \o Condition(calls, i + 1)

\* C16: a Select, Update or Delete with n Where and WhereIn calls renders
\* " WHERE f1 AND ... AND fn", the conditions in call order, once, and no
\* WHERE at all when n = 0.
C16_WhereInCallOrder ==
    (b.k \in {"select", "update", "delete"} /\ Rendered) =>
        LET cond == Condition(WhereCalls, 1)
            at == {i \in 1..Len(res.q) : res.q[i] = " WHERE "}
        IN  IF WhereCalls = <<>> THEN at = {}
            ELSE /\ Cardinality(at) = 1
                 /\ \A i \in at :
                      /\ SubSeq(res.q, i, i + Len(cond) - 1) = cond
                      /\ i + Len(cond) <= Len(res.q) => res.q[i + Len(cond)] # " AND "

\* Where and WhereIn calls interleaved, as many as the bound allows
C16_Witness ==
    /\ b.k \in {"select", "update", "delete"} /\ Rendered
    /\ Len(WhereCalls) = MaxCalls
    /\ "in" \in DOMAIN WhereCalls[1] /\ "x" \in DOMAIN WhereCalls[2]
    /\ WhereCalls[2].x.v # <<>>

\* C24: the tableStatement flag of a Select is true exactly when the table
\* it holds was given to From as a Statement, so that a table given by name
\* renders " FROM <name>" without parentheses and a Statement renders
\* " FROM ( <rendered> )".
C24_FromLatest ==
    (b.k = "select" /\ b.table # NoStmt) =>
        /\ b.tableStatement <=> b.table.k # "part"
        /\ Rendered =>
             IF b.table.k = "part"
             THEN /\ Contains(res.q, <<" FROM ">> \o b.table.Query)
                  /\ ~Contains(res.q, <<" FROM ", "( ">>)
             ELSE Contains(res.q, <<" FROM ", "( ">> \o InnerText \o <<" )">>)

\* the only From call passed a Statement, and the Select was rendered
C24_WitnessStatement ==
    /\ b.k = "select" /\ b.table = InnerSel /\ b.tableStatement /\ Rendered
    /\ Cardinality({i \in 1..Len(hist) : hist[i].op = "From"}) = 1
    /\ Contains(res.q, <<" FROM ", "( ">> \o InnerText \o <<" )">>)

---------------------------------------------------------------------------
(* Part.Build and Part.String on every small Part *)

RECURSIVE SeqsUpTo(_, _)
SeqsUpTo(S, n) ==
    IF n = 0 THEN {<<>>}
    ELSE Bind(SeqsUpTo(S, n - 1), LAMBDA r :
             r \cup {Append(q, x) : q \in {y \in r : Len(y) = n - 1}, x \in S})

Queries == SeqsUpTo({"c", "?"}, MaxQueryLen)

PartValues == SeqsUpTo({Int7, StrQ, NilV, BadV, StmtV(PartBad)}, MaxValues)

InitPart ==
    /\ b \in {Part(q, v) : q \in Queries, v \in PartValues}
    /\ sink \in {<<>>, AB}
    /\ pool = <<>>
    /\ res = NoResult
    /\ hist = <<>>
    /\ thr = <<>>
    /\ bufs = <<>>
    /\ free = {}

\* Part.Build into the caller's buffer
PartBuildCall ==
    /\ Len(hist) < MaxCalls
    /\ \E r \in {Build(b, sink)} :
         /\ sink' = r.buf
         /\ res' = [done |-> TRUE, q |-> <<>>, err |-> r.err]
    /\ hist' = Append(hist, [op |-> "Build", sink |-> sink])
    /\ UNCHANGED <<b, pool, thr, bufs, free>>

NextPart == PartBuildCall \/ StringCall

SpecPart == InitPart /\ [][NextPart]_vars

\* C1: when the number of "?" of a Part's Query differs from the number of
\* its Values, every Build returns ErrInvalidArgNumber and leaves the sink
\* as it was, and String returns that error with no text.
C1_MismatchFails ==
    CountQ(b.Query) # Len(b.Values) =>
        /\ res.done => (res.err = ErrInvalidArgNumber /\ res.q = <<>>)
        /\ Build(b, sink) = Fail(sink, ErrInvalidArgNumber)
        /\ \A i \in 1..Len(hist) : hist[i].sink = sink

C1_Witness ==
    /\ CountQ(b.Query) > 0 /\ Len(b.Values) > CountQ(b.Query)
    /\ hist # <<>> /\ sink = AB
    /\ res.done /\ res.err = ErrInvalidArgNumber

---------------------------------------------------------------------------
(* WhereIn called with the same values in its two forms *)

InValues == SeqsUpTo({Int7, StrQ, NilV, SliceV(<<Int7>>)}, MaxValues)

InitWhereIn ==
    /\ b \in {Select, Update, Delete}
    /\ pool = <<>>
    /\ res = NoResult
    /\ hist = <<>>
    /\ sink = <<>>
    /\ thr = <<>>
    /\ bufs = <<>>
    /\ free = {}

\* WhereIn(A, values...) where the caller holds the values xs; a panic leaves
\* the builder as it was and unwinds through the deferred Release
WhereInCall(form, xs, values) ==
    /\ \A i \in 1..Len(hist) : hist[i].form # form /\ hist[i].xs = xs
    /\ LET nb == BufNew(pool)
           r == buildWhereIn(A, values, nb.buf)
       IN  /\ b' = IF r.panic THEN b ELSE [b EXCEPT !.where = Append(@, r.part)]
           /\ res' = IF r.panic THEN [done |-> TRUE, q |-> <<>>, err |-> Panic]
                     ELSE NoResult
           /\ pool' = Release(nb.pool, IF r.panic THEN nb.buf ELSE r.part.Query)
           /\ hist' = Append(hist, [op |-> "WhereIn", form |-> form, xs |-> xs,
                                    panic |-> r.panic])
    /\ UNCHANGED <<sink, thr, bufs, free>>

\* WhereIn(A, xs[0], ..., xs[n-1])
WhereInEach == \E xs \in InValues : WhereInCall("each", xs, xs)

\* WhereIn(A, xs)
WhereInSeq == \E xs \in InValues : WhereInCall("seq", xs, <<SliceV(xs)>>)

NextWhereIn == WhereInEach \/ WhereInSeq \/ StringCall

SpecWhereIn == InitWhereIn /\ [][NextWhereIn]_vars

\* the last WhereIn call passed one argument that is not a sequence
LoneValue ==
    /\ Len(hist) > 0 /\ hist[Len(hist)].form = "each"
    /\ Len(hist[Len(hist)].xs) = 1 /\ hist[Len(hist)].xs[1].t # "slice"

\* C29: WhereIn with one argument that is not a sequence, null included,
\* does not fail and appends the fragment "<column> IN (?)" holding that one
\* value.
C29_LoneValueIsList ==
    LoneValue =>
        /\ ~hist[Len(hist)].panic
        /\ Len(b.where) > 0
        /\ b.where[Len(b.where)]
             = Part(A \o <<" IN (", "?", ")">>, hist[Len(hist)].xs)

\* WhereIn(A, 7) appended "a IN (?)" with the value 7, and it renders
C29_WitnessInt ==
    /\ LoneValue /\ hist[Len(hist)].xs = <<Int7>> /\ ~hist[Len(hist)].panic
    /\ b.where[Len(b.where)] = Part(A \o <<" IN (", "?", ")">>, <<Int7>>)
    /\ Rendered /\ Contains(res.q, A \o <<" IN (", "7", ")">>)

\* C8 as stated: for every sequence xs, WhereIn with xs as one sequence
\* argument and WhereIn with the elements of xs as variadic arguments both
\* return the fragment "column IN (?,...,?)" with one placeholder and one
\* value per element of xs in order, and so render the same text.
C8_SeqEqualsEach ==
    /\ \A i \in 1..Len(hist) : ~hist[i].panic
    /\ \A i \in 1..Len(b.where) :
         b.where[i] = Part(A \o <<" IN (">> \o Placeholders(Len(hist[i].xs)) \o <<")">>,
                           hist[i].xs)
    /\ Len(b.where) = 2 => Build(b.where[1], <<>>) = Build(b.where[2], <<>>)

\* both forms called with two plain values, where they do agree
C8_WitnessAgree ==
    /\ Len(hist) = 2 /\ hist[1].xs = <<Int7, StrQ>>
    /\ Len(b.where) = 2 /\ b.where[1] = b.where[2]
    /\ Rendered

---------------------------------------------------------------------------
(* Concurrent String calls on one configured builder *)

Threads == 1..NumThreads

\* a plausible slip: one buffer serves every caller and stays in the pool
PoolGetShared(fr, n) == {[id |-> i, free |-> fr] : i \in fr}

\* pool.Get(): a buffer taken out of the pool, or a new one made by pool.New
\* (sync.Pool may return a new one also when buffers lie in it); n buffers
\* exist so far
PoolGet(fr, n) ==
    {[id |-> i, free |-> fr \ {i}] : i \in fr}
        \cup (IF n < NumThreads THEN {[id |-> n + 1, free |-> fr]} ELSE {})

\* fully configured builders: a Select, an Update over a map, a failing Delete
ConcBuilders ==
    {InnerSel,
     [Update EXCEPT !.table = T, !.values = (B :> Int7) @@ (A :> NilV)],
     [Delete EXCEPT !.table = T, !.where = <<Part(Q0, <<>>), PartBad>>]}

Idle == [pc |-> "idle", buf |-> 0, todo |-> <<>>, berr |-> ErrNil,
         q |-> <<>>, err |-> ErrNil, n |-> 0]

InitConc ==
    /\ b \in ConcBuilders
    /\ bufs \in {<<>>, <<<<>>>>}
    /\ free = 1..Len(bufs)
    /\ thr = [t \in Threads |-> Idle]
    /\ pool = <<>>
    /\ res = NoResult
    /\ hist = <<>>
    /\ sink = <<>>

\* "buf := buffer.New()"; what Build is going to write and return is fixed by
\* the builder and the order the maps are ranged over
BufferNew(t) ==
    /\ thr[t].pc = "idle" /\ thr[t].n < MaxRenders
    /\ \E g \in PoolGet(free, Len(bufs)), iter \in IterOrders :
         \E r \in {Render(b, <<>>, iter)} :
             /\ free' = g.free
             /\ bufs' = IF g.id > Len(bufs) THEN Append(bufs, <<>>) ELSE bufs
             /\ thr' = [thr EXCEPT ![t] = [@ EXCEPT !.pc = "build", !.buf = g.id,
                                              !.todo = r.buf, !.berr = r.err]]
    /\ UNCHANGED <<b, pool, res, hist, sink>>

\* one buf.WriteString of Build
BufferWrite(t) ==
    /\ thr[t].pc = "build" /\ thr[t].todo # <<>>
    /\ bufs' = [bufs EXCEPT ![thr[t].buf] = Append(@, Head(thr[t].todo))]
    /\ thr' = [thr EXCEPT ![t] = [@ EXCEPT !.todo = Tail(@)]]
    /\ UNCHANGED <<b, pool, res, hist, sink, free>>

\* Build has returned: 'return "", err' or "return buf.String(), nil"
BufferString(t) ==
    /\ thr[t].pc = "build" /\ thr[t].todo = <<>>
    /\ thr' = [thr EXCEPT ![t] = [@ EXCEPT !.pc = "release", !.err = thr[t].berr,
                 !.q = IF thr[t].berr = ErrNil THEN bufs[thr[t].buf] ELSE <<>>]]
    /\ UNCHANGED <<b, pool, res, hist, sink, bufs, free>>

\* the deferred buf.Release(): "b.buf = b.buf[:0]; pool.Put(b)"
BufferRelease(t) ==
    /\ thr[t].pc = "release"
    /\ bufs' = [bufs EXCEPT ![thr[t].buf] = SubSeq(@, 1, 0)]
    /\ free' = free \cup {thr[t].buf}
    /\ thr' = [thr EXCEPT ![t] = [@ EXCEPT !.pc = "idle", !.buf = 0, !.n = @ + 1]]
    /\ UNCHANGED <<b, pool, res, hist, sink>>

NextConc ==
    \E t \in Threads :
        BufferNew(t) \/ BufferWrite(t) \/ BufferString(t) \/ BufferRelease(t)

SpecConc == InitConc /\ [][NextConc]_vars

\* C4: while threads call String concurrently on one configured builder, no
\* buffer is held by two calls in flight or lies in the pool while held, and
\* every call that has returned holds, now and after the buffer's release
\* and reuse, the text or error of a single-threaded String call.
C4_ConcurrentString ==
    /\ \A t, u \in Threads :
         (t # u /\ thr[t].buf # 0) => thr[t].buf # thr[u].buf
    /\ \A t \in Threads : thr[t].buf # 0 => thr[t].buf \notin free
    /\ \A t \in Threads :
         (thr[t].pc = "release" \/ thr[t].n > 0) =>
             \A iter \in IterOrders :
                 LET one == String(b, <<>>, iter)
                 IN  thr[t].q = one.q /\ thr[t].err = one.err

\* two calls in flight, both part way through their writes, one of them on a
\* buffer it got back from the pool after an earlier call
C4_Witness ==
    \E t, u \in Threads :
        /\ t # u /\ thr[t].pc = "build" /\ thr[u].pc = "build"
        /\ thr[t].n > 0 /\ thr[t].q # <<>>
        /\ bufs[thr[t].buf] # <<>> /\ thr[t].todo # <<>>
        /\ bufs[thr[u].buf] # <<>> /\ thr[u].todo # <<>>

---------------------------------------------------------------------------
(* writeValue on integers of every kind and on every small string *)

UnsignedKinds == {"uint", "uint8", "uint16", "uint32", "uint64"}

\* integers every signed kind holds, and integers every unsigned kind holds
SignedSample == {-128, -30, -7, 0, 7, 100, 127}
UnsignedSample == {0, 7, 100, 255}

EncStrings == SeqsUpTo({"a", "'"}, MaxQueryLen)

EncValues ==
    {IntV(w, n) : w \in SignedKinds, n \in SignedSample}
        \cup {IntV(w, n) : w \in UnsignedKinds, n \in UnsignedSample}
        \cup {StrV(x) : x \in EncStrings}

InitValue ==
    /\ b \in {[k |-> "value", arg |-> v, keyword |-> kw] :
                 v \in EncValues, kw \in BOOLEAN}
    /\ sink \in {<<>>, AB}
    /\ pool = <<>>
    /\ res = NoResult
    /\ hist = <<>>
    /\ thr = <<>>
    /\ bufs = <<>>
    /\ free = {}

\* writeValue(buf, arg, keyword) into the caller's buffer
WriteValueCall ==
    /\ Len(hist) < MaxCalls
    /\ \E r \in {writeValue(sink, b.arg, b.keyword)} :
         /\ sink' = r.buf
         /\ res' = [done |-> TRUE, q |-> <<>>, err |-> r.err]
    /\ hist' = Append(hist, [op |-> "writeValue", sink |-> sink])
    /\ UNCHANGED <<b, pool, thr, bufs, free>>

NextValue == WriteValueCall

SpecValue == InitValue /\ [][NextValue]_vars

\* what the last writeValue call appended to the sink
Written == SubSeq(sink, Len(LastCall.sink) + 1, Len(sink))

DigitValue(c) == CHOOSE d \in 0..9 : DigitChar(d) = c

IsDigit(c) == \E d \in 0..9 : DigitChar(d) = c

\* the number a sequence of decimal digits denotes
RECURSIVE DecValue(_)
DecValue(ds) ==
    IF ds = <<>> THEN 0
    ELSE 10 * DecValue(SubSeq(ds, 1, Len(ds) - 1)) + DigitValue(ds[Len(ds)])

\* text is the base-10 text of n: "-" exactly for a negative n, then digits
\* with no leading zero that denote the magnitude of n
IsDecimalOf(text, n) ==
    LET ds == IF n < 0 THEN Tail(text) ELSE text
    IN  /\ text # <<>> /\ (n < 0 <=> text[1] = "-")
        /\ ds # <<>> /\ \A i \in 1..Len(ds) : IsDigit(ds[i])
        /\ (Len(ds) > 1 => ds[1] # "0")
        /\ DecValue(ds) = (IF n < 0 THEN -n ELSE n)

\* C11 as stated: an integer of any kind, signed or unsigned, is written as
\* its base-10 text and writeValue never returns the invalid-type error.
C11_EveryInteger ==
    (b.arg.t = "int" /\ hist # <<>>) =>
        /\ res.err = ErrNil
        /\ SubSeq(sink, 1, Len(LastCall.sink)) = LastCall.sink
        /\ IsDecimalOf(Written, b.arg.i)

\* a negative signed integer, where the statement of C11 does hold
C11_WitnessSigned ==
    /\ b.arg.t = "int" /\ b.arg.w = "int8" /\ b.arg.i = -128 /\ hist # <<>>
    /\ res.err = ErrNil /\ IsDecimalOf(Written, b.arg.i)

\* body with every pair of quotes read as one quote; <<"?">> when a quote
\* stands alone
RECURSIVE Undouble(_)
Undouble(body) ==
    IF body = <<>> THEN <<>>
    ELSE IF Head(body) # "'" THEN <<Head(body)>> \o Undouble(Tail(body))
    ELSE IF Len(body) >= 2 /\ body[2] = "'"
    THEN <<"'">> \o Undouble(SubSeq(body, 3, Len(body)))
    ELSE <<"?">>

\* C12: in non-keyword mode a string s is written as a quote, s with every
\* quote doubled and nothing else changed, and a quote, so that reading the
\* pairs of quotes of the body as one quote gives s back; in keyword mode s
\* is written unchanged.
C12_QuoteString ==
    (b.arg.t = "str" /\ hist # <<>>) =>
        LET s == b.arg.s
            w == Written
            body == SubSeq(w, 2, Len(w) - 1)
        IN  /\ res.err = ErrNil
            /\ SubSeq(sink, 1, Len(LastCall.sink)) = LastCall.sink
            /\ IF b.keyword THEN w = s
               ELSE /\ Len(w) = Len(s) + Count(s, "'") + 2
                    /\ w[1] = "'" /\ w[Len(w)] = "'"
                    /\ Undouble(body) = s
                    /\ Count(body, "'") = 2 * Count(s, "'")

\* a string with two quotes written in non-keyword mode
C12_Witness ==
    /\ b.arg.t = "str" /\ ~b.keyword /\ Count(b.arg.s, "'") = 2 /\ Len(b.arg.s) = 3
    /\ hist # <<>> /\ res.err = ErrNil /\ sink # LastCall.sink

---------------------------------------------------------------------------
(* package migrate: the catalog (New, NewWithFiles, parseStatement) and    *)
(* Migrate.Up, Down, Apply, apply against a database.                      *)
(*                                                                         *)
(* In this specification b is the Migrate value (NoStmt before New has      *)
(* returned one), sink is the database (the version its migrations table   *)
(* records, -1 when the table does not exist), thr is the Apply call in    *)
(* progress, hist is what that call sent to the driver, in order, and res  *)
(* is what the last call returned.                                         *)
(*                                                                         *)
(* A line of a migration file is a sequence of tokens: "--", " ", ";",     *)
(* the words of the annotation, and "s" for any other SQL text.            *)

MaxVersion == 2     \* highest version of a catalog
MaxLines == 3       \* lines of a migration file

ErrInvalidNoTx == "ErrInvalidNoTx"
ErrNoMigrations == "migrate: no migrations where provided"
ErrVersionNotPositive == "migrate: migration version must be greater than 0"
ErrNotSequential == "migrate: migration versions must be sequential"
ErrNotExist == "migrate: specified version does not exist"
ErrWrongSequence == "migrate: wrong sequence number"
\* the run-time panics of a slice expression and of an index expression
ErrSliceBounds == "panic: slice bounds out of range"
ErrIndexRange == "panic: index out of range"

Statements(noTx, statements) == [NoTx |-> noTx, Statements |-> statements]

Migration(version, apply, discard) ==
    [Version |-> version, Apply |-> apply, Discard |-> discard]

migration0 ==
    Migration(0, Statements(FALSE, <<<<"CREATE TABLE migrations">>>>),
                 Statements(FALSE, <<<<"DROP TABLE migrations">>>>))

RECURSIVE TrimLeft(_)
TrimLeft(line) ==
    IF line # <<>> /\ Head(line) = " " THEN TrimLeft(Tail(line)) ELSE line

RECURSIVE TrimRight(_)
TrimRight(line) ==
    IF line # <<>> /\ line[Len(line)] = " "
    THEN TrimRight(SubSeq(line, 1, Len(line) - 1)) ELSE line

\* strings.TrimSpace
TrimSpace(line) == TrimRight(TrimLeft(line))

\* noTXRegexp.MatchString: `--\s+migrate:\s+NoTransaction` anywhere in the line
noTXRegexp(line) ==
    \E i, j, k \in 1..Len(line) :
        /\ i + 1 < j /\ j + 1 < k
        /\ line[i] = "--" /\ line[j] = "migrate:" /\ line[k] = "NoTransaction"
        /\ \A x \in (i + 1)..(j - 1) : line[x] = " "
        /\ \A x \in (j + 1)..(k - 1) : line[x] = " "

RECURSIVE parseLines(_, _, _, _)
\* the scanner loop of parseStatement from the x-th line on
parseLines(data, x, s, stmt) ==
    IF x > Len(data)
    THEN IF stmt # <<>> THEN [s EXCEPT !.Statements = Append(@, stmt)] ELSE s
    ELSE Bind(TrimSpace(data[x]), LAMBDA line :
        IF line = <<>> THEN parseLines(data, x + 1, s, stmt)
        ELSE IF Head(line) = "--"
        THEN parseLines(data, x + 1,
                        IF noTXRegexp(line) THEN [s EXCEPT !.NoTx = TRUE] ELSE s,
                        stmt)
        ELSE LET stmt1 == IF stmt # <<>> THEN stmt \o <<" ">> ELSE stmt
             IN  IF line[Len(line)] = ";"
                 THEN parseLines(data, x + 1,
                          [s EXCEPT !.Statements =
                              Append(@, stmt1 \o SubSeq(line, 1, Len(line) - 1))],
                          <<>>)
                 ELSE parseLines(data, x + 1, s, stmt1 \o line))

\* parseStatement
parseStatement(data) ==
    Bind(parseLines(data, 1, Statements(FALSE, <<>>), <<>>), LAMBDA s :
        [s |-> s,
         err |-> IF s.NoTx /\ Len(s.Statements) > 1 THEN ErrInvalidNoTx ELSE ErrNil])

\* a plausible slip: the migrations are taken in the order given
SortByVersionSkipped(ms) == ms

RECURSIVE SortByVersion(_)
\* sort.Slice(m.migrations, by Version)
SortByVersion(ms) ==
    IF ms = <<>> THEN <<>>
    ELSE LET rest == SortByVersion(Tail(ms))
             lower == SelectSeq(rest, LAMBDA x : x.Version < Head(ms).Version)
             upper == SelectSeq(rest, LAMBDA x : ~(x.Version < Head(ms).Version))
         IN  lower \o <<Head(ms)>> \o upper

\* New(db, logger, migrations)
RECURSIVE SliceCap(_)
\* the capacity of a slice built from nil by n appends of one element: the
\* runtime doubles the capacity of a small slice that is full
SliceCap(n) ==
    IF n = 0 THEN 0
    ELSE Bind(SliceCap(n - 1), LAMBDA c :
            IF n <= c THEN c ELSE IF c = 0 THEN 1 ELSE 2 * c)

MigrateNew(migrations) ==
    IF Len(migrations) = 0 THEN [m |-> NoStmt, err |-> ErrNoMigrations]
    ELSE IF \E i \in 1..Len(migrations) : migrations[i].Version <= 0
    THEN [m |-> NoStmt, err |-> ErrVersionNotPositive]
    ELSE Bind(SortByVersion(<<migration0>> \o migrations), LAMBDA sorted :
        IF \E x \in 1..Len(sorted) : sorted[x].Version # x - 1
        THEN [m |-> NoStmt, err |-> ErrNotSequential]
        ELSE [m |-> [k |-> "migrate", migrations |-> sorted,
                     cap |-> SliceCap(Len(sorted))],
              err |-> ErrNil])

RECURSIVE WalkDir(_, _, _)
\* the fs.WalkDir callback of NewWithFiles over the files from the x-th on;
\* migrations is the map from version to Migration
WalkDir(files, x, migrations) ==
    IF x > Len(files) THEN [migrations |-> migrations, err |-> ErrNil]
    ELSE Bind(files[x], LAMBDA f :
        IF f.version <= 0 THEN [migrations |-> migrations, err |-> ErrVersionNotPositive]
        ELSE Bind(parseStatement(f.source), LAMBDA p :
            LET mig == IF f.version \in DOMAIN migrations THEN migrations[f.version]
                       ELSE Migration(f.version, Statements(FALSE, <<>>),
                                      Statements(FALSE, <<>>))
                mig1 == IF f.kind = "apply" THEN [mig EXCEPT !.Apply = p.s]
                        ELSE [mig EXCEPT !.Discard = p.s]
                migrations1 == [v \in (DOMAIN migrations) \cup {f.version} |->
                                   IF v = f.version THEN mig1 ELSE migrations[v]]
            IN  IF p.err # ErrNil THEN [migrations |-> migrations1, err |-> p.err]
                ELSE WalkDir(files, x + 1, migrations1)))

\* NewWithFiles; iter is the order in which the map of migrations is ranged over
NewWithFiles(files, iter) ==
    Bind(WalkDir(files, 1, <<>>), LAMBDA w :
        IF w.err # ErrNil THEN [m |-> NoStmt, err |-> w.err]
        ELSE MigrateNew([i \in 1..Len(iter) |-> w.migrations[iter[i]]]))

\* the driver calls
EvBegin == [e |-> "begin"]
EvRollback == [e |-> "rollback"]
EvCommit == [e |-> "commit"]
EvVersion(v) == [e |-> "version", got |-> v]
EvExec(via, stmt) == [e |-> "exec", via |-> via, stmt |-> stmt]
EvSet(v) == [e |-> "set", version |-> v]

\* Migrate.version: the newest row of the migrations table
version(db) == db.version

\* Migrate.Version
Version(db) == [version |-> version(db), events |-> <<EvBegin, EvVersion(version(db)), EvRollback>>]

\* the statement loop of apply
execAll(statements) ==
    [x \in 1..Len(statements.Statements) |->
        EvExec(IF statements.NoTx THEN "db" ELSE "tx", statements.Statements[x])]

\* a plausible slip: discarding migration k records version k again
recordedSame(m, mig, discard) == mig.Version

\* the version apply records after the statements: "if discard { mig =
\* m.migrations[mig.Version-1] }; m.set(ctx, tx, mig)"
recorded(m, mig, discard) ==
    IF discard THEN m.migrations[(mig.Version - 1) + 1].Version ELSE mig.Version

\* a plausible slip: apply without the comparison of the migration's version
\* with the version read in the transaction
applyUnchecked(m, db, mig, discard) ==
    LET current == version(db)
        head == <<EvBegin, EvVersion(current)>>
                \o (IF current = -1 THEN <<EvRollback, EvBegin>> ELSE <<>>)
        statements == IF discard THEN mig.Discard ELSE mig.Apply
    IN  IF mig.Version = 0 /\ discard
        THEN [err |-> ErrNil,
              events |-> head \o execAll(statements) \o <<EvCommit>>,
              db |-> [version |-> -1]]
        ELSE Bind(recorded(m, mig, discard), LAMBDA v :
              [err |-> ErrNil,
               events |-> head \o execAll(statements) \o <<EvSet(v), EvCommit>>,
               db |-> [version |-> v]])

\* Migrate.apply: its error, its driver calls, the database it leaves
apply(m, db, mig, discard) ==
    LET current == version(db)
        head == <<EvBegin, EvVersion(current)>>
                \o (IF current = -1 THEN <<EvRollback, EvBegin>> ELSE <<>>)
        wrong == IF discard THEN mig.Version # current
                 ELSE mig.Version # current + 1
        statements == IF discard THEN mig.Discard ELSE mig.Apply
    IN  IF wrong THEN [err |-> ErrWrongSequence, events |-> head, db |-> db]
        ELSE IF mig.Version = 0 /\ discard
        THEN [err |-> ErrNil,
              events |-> head \o execAll(statements) \o <<EvCommit>>,
              db |-> [version |-> -1]]
        ELSE Bind(recorded(m, mig, discard), LAMBDA v :
              [err |-> ErrNil,
               events |-> head \o execAll(statements) \o <<EvSet(v), EvCommit>>,
               db |-> [version |-> v]])

\* the calls of apply that Migrate.Apply makes, in order: the index into
\* m.migrations (from 0) and the discard flag of each
ApplyCalls(current, target) ==
    IF current < target
    THEN [x \in 1..(target - current) |-> [index |-> x - 1, discard |-> FALSE]]
    ELSE [x \in 1..(current - target) |->
             [index |-> (current - target) - x, discard |-> TRUE]]

(* Inputs *)

Sql1 == <<"s">>
Sql2 == <<"s", " ", "s">>

\* the apply and discard statements of a migration given as a struct
Shapes ==
    {[a |-> Statements(FALSE, <<Sql1>>), d |-> Statements(FALSE, <<Sql1>>)],
     [a |-> Statements(FALSE, <<Sql1, Sql2>>), d |-> Statements(FALSE, <<Sql1>>)],
     [a |-> Statements(TRUE, <<Sql1>>), d |-> Statements(FALSE, <<Sql1>>)],
     [a |-> Statements(TRUE, <<Sql1, Sql2>>), d |-> Statements(FALSE, <<Sql1>>)],
     [a |-> Statements(FALSE, <<Sql1>>), d |-> Statements(TRUE, <<Sql2, Sql1>>)]}

MigrationLists ==
    SeqsUpTo({Migration(v, sh.a, sh.d) : v \in 0..MaxVersion, sh \in Shapes},
             MaxVersion)

NoTxLine == <<"--", " ", "migrate:", " ", "NoTransaction">>
SqlLine == <<"s", ";">>

ParseLines ==
    {NoTxLine,
     <<"--", "migrate:", " ", "NoTransaction">>,
     <<" ">>,
     SqlLine,
     <<"s">>,
     <<" ", "s", ";", " ">>,
     <<"s", " ", "--", " ", "migrate:", " ", "NoTransaction", ";">>}

Files == SeqsUpTo(ParseLines, MaxLines)

\* the files of a directory in the lexical order fs.WalkDir visits them
FileSets ==
    LET file(v, kind, source) == [version |-> v, kind |-> kind, source |-> source]
    IN  {<<file(1, "apply", f), file(1, "discard", d)>> \o more :
            f \in Files,
            d \in {<<SqlLine>>, <<NoTxLine, SqlLine, SqlLine>>},
            more \in {<<>>, <<file(2, "apply", <<SqlLine>>)>>}}
        \cup {<<file(0, "apply", <<SqlLine>>)>>}

Idling == [op |-> "none"]

InitMigrate ==
    /\ b = NoStmt
    /\ sink = [version |-> -1]
    /\ thr = Idling
    /\ hist = <<>>
    /\ res = [done |-> FALSE, op |-> "none", err |-> ErrNil, n |-> 0]
    /\ pool = <<>>
    /\ bufs = <<>>
    /\ free = {}

\* New returns
NewCall ==
    /\ b = NoStmt /\ ~res.done
    /\ \E migrations \in MigrationLists :
         \E r \in {MigrateNew(migrations)} :
             /\ b' = r.m
             /\ res' = [done |-> TRUE, op |-> "New", err |-> r.err, n |-> 0,
                        given |-> migrations]
    /\ UNCHANGED <<pool, hist, sink, thr, bufs, free>>

\* NewWithFiles returns
NewWithFilesCall ==
    /\ b = NoStmt /\ ~res.done
    /\ \E files \in FileSets :
         \E iter \in KeyOrders(WalkDir(files, 1, <<>>).migrations) :
             \E r \in {NewWithFiles(files, iter)} :
                 /\ b' = r.m
                 /\ res' = [done |-> TRUE, op |-> "NewWithFiles", err |-> r.err,
                            n |-> 0, given |-> files]
    /\ UNCHANGED <<pool, hist, sink, thr, bufs, free>>

\* Migrate.Apply up to its switch: the guard, Version, the slice of migrations
ApplyStart(op, target) ==
    /\ b # NoStmt /\ thr = Idling /\ res.n < MaxCalls
    /\ IF Len(b.migrations) < target /\ target # -1
       THEN /\ res' = [done |-> TRUE, op |-> op, err |-> ErrNotExist, n |-> res.n + 1,
                       from |-> version(sink), target |-> target, applied |-> <<>>,
                       began |-> FALSE]
            /\ UNCHANGED <<hist, thr>>
       ELSE \E current \in {Version(sink)} :
            /\ hist' = current.events
            /\ IF current.version = target
               THEN /\ res' = [done |-> TRUE, op |-> op, err |-> ErrNil, n |-> res.n + 1,
                               from |-> current.version, target |-> target,
                               applied |-> <<>>, began |-> TRUE]
                    /\ UNCHANGED thr
               ELSE IF \/ current.version < target /\ target + 1 > b.cap
                       \/ current.version > target /\ target + 1 < 0
               THEN \* m.migrations[current.Version+1 : version+1] beyond the
                    \* capacity, m.migrations[version+1 : ...] below 0
                    /\ res' = [done |-> TRUE, op |-> op, err |-> ErrSliceBounds,
                               n |-> res.n + 1, from |-> current.version,
                               target |-> target, applied |-> <<>>, began |-> TRUE]
                    /\ UNCHANGED thr
               ELSE /\ res' = [done |-> FALSE, op |-> op, err |-> ErrNil, n |-> res.n + 1]
                    /\ thr' = [op |-> op, from |-> current.version, target |-> target,
                               todo |-> ApplyCalls(current.version, target),
                               applied |-> <<>>, err |-> ErrNil, last |-> <<>>]
    /\ UNCHANGED <<b, pool, sink, bufs, free>>

ApplyCall ==
    \E target \in -2..(MaxVersion + 2) :
        /\ b # NoStmt
        /\ target <= Len(b.migrations) + 1
        /\ ApplyStart("Apply", target)

UpCall ==
    /\ b # NoStmt
    /\ ApplyStart("Up", b.migrations[Len(b.migrations)].Version)

DownCall ==
    /\ b # NoStmt
    /\ ApplyStart("Down", -1)

\* one call of m.apply from the loops of Migrate.Apply
ApplyStep ==
    /\ thr # Idling /\ thr.todo # <<>> /\ thr.err = ErrNil
    /\ Head(thr.todo).index < Len(b.migrations)
    /\ LET call == Head(thr.todo)
           mig == b.migrations[call.index + 1]
       IN  \E r \in {apply(b, sink, mig, call.discard)} :
               /\ hist' = hist \o r.events
               /\ sink' = r.db
               /\ thr' = [thr EXCEPT
                            !.todo = Tail(@),
                            !.err = r.err,
                            !.last = <<[version |-> mig.Version,
                                        discard |-> call.discard,
                                        current |-> version(sink),
                                        events |-> r.events, err |-> r.err]>>,
                            !.applied =
                                IF r.err = ErrNil
                                THEN Append(@, [version |-> mig.Version,
                                                discard |-> call.discard])
                                ELSE @]
    /\ UNCHANGED <<b, pool, res, bufs, free>>

\* "m.migrations[mig]" in the loop of Migrate.Apply with mig beyond the catalog
ApplyPanic ==
    /\ thr # Idling /\ thr.todo # <<>> /\ thr.err = ErrNil
    /\ Head(thr.todo).index >= Len(b.migrations)
    /\ thr' = [thr EXCEPT !.todo = Tail(@), !.err = ErrIndexRange]
    /\ UNCHANGED <<b, pool, res, hist, sink, bufs, free>>

\* Migrate.Apply returns
ApplyReturn ==
    /\ thr # Idling /\ (thr.todo = <<>> \/ thr.err # ErrNil)
    /\ res' = [done |-> TRUE, op |-> thr.op, err |-> thr.err, n |-> res.n,
               from |-> thr.from, target |-> thr.target, applied |-> thr.applied,
               began |-> TRUE]
    /\ thr' = Idling
    /\ UNCHANGED <<b, pool, hist, sink, bufs, free>>

NextMigrate ==
    \/ NewCall \/ NewWithFilesCall
    \/ ApplyCall \/ UpCall \/ DownCall
    \/ ApplyStep \/ ApplyPanic \/ ApplyReturn

SpecMigrate == InitMigrate /\ [][NextMigrate]_vars

\* the highest version of the catalog
HighestVersion == Len(b.migrations) - 1

\* an Apply, Up or Down call with a target the catalog has has returned
Applied ==
    /\ res.done /\ res.op \in {"Apply", "Up", "Down"}
    /\ res.target \in -1..HighestVersion

\* the migrations between the versions c and v: c+1..v ascending to apply,
\* c..v+1 descending to discard
StepsBetween(c, v) ==
    IF c < v THEN [x \in 1..(v - c) |-> [version |-> c + x, discard |-> FALSE]]
    ELSE [x \in 1..(c - v) |-> [version |-> c + 1 - x, discard |-> TRUE]]

\* C17: Apply(v) from the version c applies c+1..v ascending or discards
\* c..v+1 descending, returns no error and leaves the version v recorded;
\* Up is Apply(N) and Down is Apply(-1).
C17_ApplyReachesTarget ==
    Applied =>
        /\ res.err = ErrNil
        /\ sink.version = res.target
        /\ res.applied = StepsBetween(res.from, res.target)
        /\ res.op = "Up" => res.target = HighestVersion
        /\ res.op = "Down" => res.target = -1

\* Up from an empty database and Down from the highest version do so
C17_WitnessDown ==
    /\ Applied /\ res.op = "Down" /\ res.from = MaxVersion /\ res.err = ErrNil
    /\ sink.version = -1
    /\ res.applied = StepsBetween(MaxVersion, -1)

\* C27: Apply with a target that is neither -1 nor a version of the catalog
\* returns the 'does not exist' error before it begins a transaction.
C27_UnknownTargetRejected ==
    (res.done /\ res.op = "Apply" /\ res.target \notin -1..HighestVersion) =>
        (res.err = ErrNotExist /\ ~res.began)

\* Apply(N+2) is rejected so
C27_WitnessRejected ==
    /\ res.done /\ res.op = "Apply" /\ res.target = HighestVersion + 2
    /\ res.err = ErrNotExist /\ ~res.began /\ sink.version = HighestVersion

\* the step of Apply that has just run
LastStep == thr.last[1]

Stepped == thr # Idling /\ thr.last # <<>>

\* the statements of the step, in their listed order
StepStatements ==
    LET mig == b.migrations[LastStep.version + 1]
    IN  IF LastStep.discard THEN mig.Discard ELSE mig.Apply

\* the version the step leaves recorded
StepVersion ==
    IF LastStep.discard THEN LastStep.version - 1 ELSE LastStep.version

\* the events of the step after its preamble: the statements, the new
\* version unless migration 0 is discarded, the commit
StepTail(withVia) ==
    [x \in 1..Len(StepStatements.Statements) |->
        IF withVia
        THEN [e |-> "exec", via |-> IF StepStatements.NoTx THEN "db" ELSE "tx",
              stmt |-> StepStatements.Statements[x]]
        ELSE [e |-> "exec", stmt |-> StepStatements.Statements[x]]]
    \o (IF LastStep.discard /\ LastStep.version = 0 THEN <<>>
        ELSE <<[e |-> "set", version |-> StepVersion]>>)
    \o <<[e |-> "commit"]>>

\* an event without the connection it was sent on
Plain(ev) == IF ev.e = "exec" THEN [e |-> "exec", stmt |-> ev.stmt] ELSE ev

InSequence ==
    IF LastStep.discard THEN LastStep.version = LastStep.current
    ELSE LastStep.version = LastStep.current + 1

\* the statements and version records the last step sent to the driver
StepWrites ==
    SelectSeq(LastStep.events, LAMBDA ev : ev.e \in {"exec", "set"})

\* C23: a step executes its migration's statements only when the version
\* read in its transaction is the migration's version minus one (apply) or
\* the migration's version (discard), and then moves the recorded version by
\* one; any other step returns the wrong-sequence error, executes no
\* statement, records no version and leaves the recorded version alone.
C23_NeverOutOfSequence ==
    Stepped =>
        IF InSequence
        THEN /\ LastStep.err = ErrNil
             /\ SelectSeq(StepWrites, LAMBDA ev : ev.e = "exec")
                  = execAll(StepStatements)
             /\ sink.version - LastStep.current
                  = (IF LastStep.discard THEN -1 ELSE 1)
        ELSE /\ LastStep.err = ErrWrongSequence
             /\ StepWrites = <<>>
             /\ sink.version = LastStep.current

\* a step was refused on a database that holds applied migrations
C23_Witness ==
    /\ Stepped /\ ~InSequence /\ LastStep.current >= 1
    /\ LastStep.err = ErrWrongSequence

\* how many events of the last step are of the kinds es
StepCount(es) == Len(SelectSeq(LastStep.events, LAMBDA ev : ev.e \in es))

\* C26: when a step returns, every transaction it began has been committed
\* or rolled back.
C26_TransactionsFinished ==
    Stepped => StepCount({"begin"}) = StepCount({"commit", "rollback"})

\* a step on a database without a migrations table rolls its first
\* transaction back and commits its second
C26_WitnessRestart ==
    /\ Stepped /\ LastStep.err = ErrNil /\ LastStep.current = -1
    /\ StepCount({"begin"}) = 2 /\ StepCount({"rollback"}) = 1
    /\ StepCount({"commit"}) = 1

\* a statement set that disables transactions and has several statements
Invalid(statements) == statements.NoTx /\ Len(statements.Statements) > 1

\* C20: no statement set of a catalog both disables transactions and has
\* more than one statement, and migrations given with such a set are
\* rejected with ErrInvalidNoTx.
C20_NoTxSingleStatement ==
    /\ b # NoStmt =>
         \A i \in 1..Len(b.migrations) :
             ~Invalid(b.migrations[i].Apply) /\ ~Invalid(b.migrations[i].Discard)
    /\ (res.done /\ res.op = "New"
          /\ \E i \in 1..Len(res.given) :
                Invalid(res.given[i].Apply) \/ Invalid(res.given[i].Discard))
         => res.err = ErrInvalidNoTx

\* a file that disables transactions and has two statements is rejected
C20_WitnessFiles ==
    /\ res.done /\ res.op = "NewWithFiles" /\ res.err = ErrInvalidNoTx /\ b = NoStmt
    /\ Invalid(parseStatement(res.given[1].source).s)

\* the versions of the migrations given to New, in the order given
GivenVersions == [i \in 1..Len(res.given) |-> res.given[i].Version]

\* the versions are 1..N, each once, in some order
ExactlyOneToN(vs) ==
    /\ Len(vs) > 0
    /\ \A v \in 1..Len(vs) : Cardinality({i \in 1..Len(vs) : vs[i] = v}) = 1

\* C21: New succeeds exactly when the migrations given carry the versions
\* 1..N, each once, in any order; an empty list and a version <= 0 are
\* errors; the catalog of a Migrate has migration 0 first and the migration
\* of version i at index i.
C21_CatalogSequential ==
    /\ (res.done /\ res.op = "New") =>
         /\ res.err = ErrNil <=> ExactlyOneToN(GivenVersions)
         /\ res.err = ErrNil <=> b # NoStmt
         /\ res.given = <<>> => res.err = ErrNoMigrations
         /\ (\E i \in 1..Len(res.given) : res.given[i].Version <= 0)
              => res.err = ErrVersionNotPositive
         /\ res.err = ErrNil =>
              /\ Len(b.migrations) = Len(res.given) + 1
              /\ \A i \in 1..Len(res.given) :
                    b.migrations[res.given[i].Version + 1] = res.given[i]
    /\ b # NoStmt =>
         /\ b.migrations[1] = migration0
         /\ \A i \in 1..Len(b.migrations) : b.migrations[i].Version = i - 1

\* New is given the highest version first and returns a Migrate
C21_Witness ==
    /\ res.done /\ res.op = "New" /\ res.err = ErrNil
    /\ Len(res.given) = MaxVersion
    /\ \A i \in 1..MaxVersion : res.given[i].Version = MaxVersion + 1 - i

---------------------------------------------------------------------------
(* package database: Tx.Query and Tx.QueryCache of one transaction.        *)
(*                                                                         *)
(* In this specification b is the Tx (its cache maps the key of a query    *)
(* text to the reflect.Value it stored, which refers to a variable of the  *)
(* caller), sink is the caller's variables, hist is the queries sent to    *)
(* the driver, in order, res is what the last call returned, and thr       *)
(* remembers, per query text, the result its first successful QueryCache   *)
(* call loaded.  Collisions of hash/maphash are not modelled.              *)

MaxQueries == 3     \* Query and QueryCache calls of one transaction

ErrDstNotPointer == "database: dst must be a pointer type"
ErrCachedDstType == "database: invalid cached dst type"
ErrScanInvalidType == "scan: invalid type"
ErrDriver == "driver error"

TextUsers == <<"SELECT ", "a", " FROM ", "t">>
TextRoles == <<"SELECT ", "b", " FROM ", "t">>

\* the statements handed to the transaction: two that render the same text,
\* one that renders another, one that does not render
TxStatements ==
    {InnerSel,
     [InnerSel EXCEPT !.limitCount = -1],
     [InnerSel EXCEPT !.columns = <<StrV(B)>>],
     BadSel}

\* the rows the database returns for a query
Rows(q) == IF q = TextUsers THEN <<"u1", "u2">> ELSE <<"r1">>

\* hash.WriteString(query); hash.Sum64(): one key per text
Sum64(q) == Len(q) * 1000 + Ord(q[2])

\* the caller's variables: two slices of rows and one single row
SliceVars == {"x", "y"}
DstVars == SliceVars \cup {"z"}
TypeOf(var) == IF var \in SliceVars THEN "[]user" ELSE "user"

\* the dst arguments: a pointer to a variable, or a variable passed by value
Dsts == {[ptr |-> p, var |-> v] : p \in BOOLEAN, v \in DstVars} \ {[ptr |-> FALSE, var |-> "y"], [ptr |-> FALSE, var |-> "z"]}

\* scan.Load into the variable var: a slice is appended to, anything else
\* takes the first row
Load(mem, var, rows) ==
    IF var \in SliceVars THEN [mem EXCEPT ![var] = @ \o rows]
    ELSE IF rows = <<>> THEN mem ELSE [mem EXCEPT ![var] = rows[1]]

\* Tx.query: the Tx and the caller's variables it leaves, the queries it
\* sent to the driver, its error; rendered is what stmt.String() returned,
\* driverOk is the outcome of QueryContext
query(t, mem, dst, rendered, cache, driverOk) ==
    Bind(rendered, LAMBDA s :
        IF s.err # ErrNil THEN [t |-> t, mem |-> mem, sent |-> <<>>, err |-> s.err]
        ELSE LET key == Sum64(s.q) IN
        IF cache /\ key \in DOMAIN t.cache
        THEN LET r == t.cache[key] IN
             IF ~dst.ptr
             THEN [t |-> t, mem |-> mem, sent |-> <<>>, err |-> ErrDstNotPointer]
             ELSE IF TypeOf(dst.var) # TypeOf(r)
             THEN [t |-> t, mem |-> mem, sent |-> <<>>, err |-> ErrCachedDstType]
             ELSE [t |-> t, mem |-> [mem EXCEPT ![dst.var] = mem[r]],
                   sent |-> <<>>, err |-> ErrNil]
        ELSE IF ~driverOk
        THEN [t |-> t, mem |-> mem, sent |-> <<s.q>>, err |-> ErrDriver]
        ELSE IF ~dst.ptr
        THEN [t |-> t, mem |-> mem, sent |-> <<s.q>>, err |-> ErrScanInvalidType]
        ELSE [t |-> IF cache
                    THEN [t EXCEPT !.cache =
                            [k \in (DOMAIN t.cache) \cup {key} |->
                                IF k = key THEN dst.var ELSE t.cache[k]]]
                    ELSE t,
              mem |-> Load(mem, dst.var, Rows(s.q)),
              sent |-> <<s.q>>, err |-> ErrNil])

\* DB.Tx: a transaction with an empty cache; the caller's variables are empty
InitTx ==
    /\ b = [k |-> "tx", cache |-> <<>>]
    /\ sink = [v \in DstVars |-> IF v \in SliceVars THEN <<>> ELSE "zero"]
    /\ hist = <<>>
    /\ thr = <<>>
    /\ res = [done |-> FALSE, op |-> "none", err |-> ErrNil, n |-> 0]
    /\ pool = <<>>
    /\ bufs = <<>>
    /\ free = {}

\* a call of Tx.query from Query (cache false) or QueryCache (cache true)
TxCall(op, cache) ==
    /\ res.n < MaxQueries
    /\ \E stmt \in TxStatements :
       \E rendered \in {String(stmt, <<>>, <<>>)} :
       \E dst \in Dsts, driverOk \in BOOLEAN :
         \E r \in {query(b, sink, dst, rendered, cache, driverOk)} :
             LET text == rendered.q
                 added == cache /\ r.err = ErrNil /\ r.sent # <<>>
             IN  /\ b' = r.t
                 /\ sink' = r.mem
                 /\ hist' = hist \o r.sent
                 /\ thr' = IF added /\ text \notin DOMAIN thr
                           THEN [q \in (DOMAIN thr) \cup {text} |->
                                    IF q = text THEN r.mem[dst.var] ELSE thr[q]]
                           ELSE thr
                 /\ res' = [done |-> TRUE, op |-> op, err |-> r.err, n |-> res.n + 1,
                            dst |-> dst, q |-> text, sent |-> r.sent,
                            before |-> text \in DOMAIN thr]
    /\ UNCHANGED <<pool, bufs, free>>

TxQuery ==
    /\ b.k = "tx"
    /\ TxCall("Query", FALSE)

TxQueryCache ==
    /\ b.k = "tx"
    /\ TxCall("QueryCache", TRUE)

NextTx == TxQuery \/ TxQueryCache

SpecTx == InitTx /\ [][NextTx]_vars

\* a QueryCache call for a text an earlier QueryCache call succeeded for,
\* with a dst of the type of the stored result
CachedCall ==
    /\ res.done /\ res.op = "QueryCache" /\ res.before
    /\ res.dst.ptr /\ TypeOf(res.dst.var) = TypeOf(b.cache[Sum64(res.q)])

\* C19: once QueryCache has succeeded for a text, a later QueryCache call
\* for the same text sends nothing to the driver and puts the result the
\* first call stored into dst.
C19_CachedResultReturned ==
    CachedCall =>
        /\ res.err = ErrNil
        /\ res.sent = <<>>
        /\ sink[res.dst.var] = thr[res.q]

\* the third call of a transaction is served from the cache into another
\* variable, by another statement of the same text
C19_WitnessHit ==
    /\ CachedCall /\ res.n = MaxQueries /\ res.dst.var = "y"
    /\ hist = <<TextUsers>> /\ sink["y"] = Rows(TextUsers) /\ thr[res.q] = Rows(TextUsers)
    /\ sink["x"] = sink["y"]

---------------------------------------------------------------------------
(* Tx: the mutex, Commit and Rollback, called from several goroutines.     *)
(*                                                                         *)
(* In this specification b is the Tx (its package, its mutex, its done     *)
(* flag and how many operations were called on it), thr is each            *)
(* goroutine's position in the operation it runs, hist is the commits and  *)
(* rollbacks the driver transaction received, res is the operations called *)
(* so far and whether the runtime stopped the program.                     *)

\* sync.Mutex.Unlock on the mutex of t; on a mutex that is not locked the
\* runtime stops the program: "fatal error: sync: unlock of unlocked mutex"
Unlock(t) ==
    IF t.mu THEN [t |-> [t EXCEPT !.mu = FALSE], fatal |-> FALSE]
    ELSE [t |-> t, fatal |-> TRUE]

\* a plausible slip: Rollback does not look at t.done
rollbackDoneIgnored(t) == FALSE

\* "if t.done { return nil }" in Rollback
rollbackDone(t) == t.done

Resting == [pc |-> "idle", op |-> "none", err |-> ErrNil, sent |-> FALSE]

InitLock ==
    /\ b \in {[k |-> "tx", pkg |-> pkg, mu |-> FALSE, done |-> FALSE, n |-> 0] :
                pkg \in {"db", "database"}}
    /\ thr = [g \in Threads |-> Resting]
    /\ hist = <<>>
    /\ res = [fatal |-> FALSE, called |-> {}]
    /\ pool = <<>>
    /\ sink = <<>>
    /\ bufs = <<>>
    /\ free = {}

\* the goroutine g may take a step of an operation it is at the place pc of
At(g, pc, ops) == ~res.fatal /\ thr[g].pc = pc /\ thr[g].op \in ops

\* the goroutine g calls op, and goes to the place pc with the error err
Enter(g, op, pc, err) ==
    /\ ~res.fatal /\ thr[g].pc = "idle" /\ b.n < MaxQueries
    /\ b' = [b EXCEPT !.n = @ + 1]
    /\ thr' = [thr EXCEPT ![g] = [pc |-> pc, op |-> op, err |-> err, sent |-> FALSE]]
    /\ res' = [res EXCEPT !.called = @ \cup {op}]
    /\ UNCHANGED <<pool, hist, sink, bufs, free>>

\* Exec, Commit and Rollback begin with "t.mu.Lock(); defer t.mu.Unlock()"
LockedCall(g) ==
    /\ thr[g].pc = "idle"
    /\ \E op \in {"Exec", "Commit", "Rollback"} : Enter(g, op, "lock", ErrNil)

\* query renders the statement before it locks, and returns when that fails
QueryCall(g) ==
    \E stmt \in {InnerSel, BadSel} :
        \E rendered \in {String(stmt, <<>>, <<>>)} :
            IF rendered.err # ErrNil THEN Enter(g, "Query", "idle", rendered.err)
            ELSE Enter(g, "Query", "lock", ErrNil)

\* t.mu.Lock() returns
Lock(g) ==
    /\ At(g, "lock", {"Exec", "Commit", "Rollback", "Query"})
    /\ ~b.mu
    /\ b' = [b EXCEPT !.mu = TRUE]
    /\ thr' = [thr EXCEPT ![g].pc = "body"]
    /\ UNCHANGED <<pool, res, hist, sink, bufs, free>>

\* Exec after the lock: package db unlocks before it returns the error of
\* stmt.String(), package database only returns it
ExecBody(g) ==
    /\ At(g, "body", {"Exec"})
    /\ \E stmt \in {InnerSel, BadSel} :
         \E rendered \in {String(stmt, <<>>, <<>>)} :
         \E u \in {IF rendered.err # ErrNil /\ b.pkg = "db" THEN Unlock(b)
                   ELSE [t |-> b, fatal |-> FALSE]} :
             /\ b' = u.t
             /\ res' = [res EXCEPT !.fatal = u.fatal]
             /\ thr' = [thr EXCEPT ![g].pc = "defer", ![g].err = rendered.err]
    /\ UNCHANGED <<pool, hist, sink, bufs, free>>

\* query after the lock: the cache, the driver, the load
QueryBody(g) ==
    /\ At(g, "body", {"Query"})
    /\ \E err \in {ErrNil, ErrDriver} :
         thr' = [thr EXCEPT ![g].pc = "defer", ![g].err = err]
    /\ UNCHANGED <<b, pool, res, hist, sink, bufs, free>>

\* "err = t.tx.Commit()"
CommitBody(g) ==
    /\ At(g, "body", {"Commit"})
    /\ hist' = Append(hist, "commit")
    /\ \E err \in {ErrNil, ErrDriver} :
         thr' = [thr EXCEPT ![g].pc = "mark", ![g].err = err, ![g].sent = TRUE]
    /\ UNCHANGED <<b, pool, res, sink, bufs, free>>

\* "if t.done { return nil }; err = t.tx.Rollback()"
RollbackBody(g) ==
    /\ At(g, "body", {"Rollback"})
    /\ IF rollbackDone(b)
       THEN /\ thr' = [thr EXCEPT ![g].pc = "defer", ![g].err = ErrNil]
            /\ UNCHANGED hist
       ELSE /\ hist' = Append(hist, "rollback")
            /\ \E err \in {ErrNil, ErrDriver} :
                 thr' = [thr EXCEPT ![g].pc = "mark", ![g].err = err,
                                    ![g].sent = TRUE]
    /\ UNCHANGED <<b, pool, res, sink, bufs, free>>

\* "t.done = true" in Commit and in Rollback
MarkDone(g) ==
    /\ At(g, "mark", {"Commit", "Rollback"})
    /\ b' = [b EXCEPT !.done = TRUE]
    /\ thr' = [thr EXCEPT ![g].pc = "defer"]
    /\ UNCHANGED <<pool, res, hist, sink, bufs, free>>

\* the deferred t.mu.Unlock() runs and the operation returns
DeferredUnlock(g) ==
    /\ At(g, "defer", {"Exec", "Commit", "Rollback", "Query"})
    /\ \E u \in {Unlock(b)} :
         /\ b' = u.t
         /\ res' = [res EXCEPT !.fatal = u.fatal]
    /\ thr' = [thr EXCEPT ![g].pc = "idle"]
    /\ UNCHANGED <<pool, hist, sink, bufs, free>>

NextLock ==
    \E g \in Threads :
        \/ LockedCall(g) \/ QueryCall(g) \/ Lock(g)
        \/ ExecBody(g) \/ QueryBody(g) \/ CommitBody(g) \/ RollbackBody(g)
        \/ MarkDone(g) \/ DeferredUnlock(g)

SpecLock == InitLock /\ [][NextLock]_vars

\* the goroutines between the return of t.mu.Lock() and their deferred Unlock
Holding == {g \in Threads : thr[g].pc \in {"body", "mark", "defer"}}

\* C25: the mutex is never unlocked while it is not held, it is locked
\* exactly while one operation is between its Lock and its return, and it is
\* free when every operation has returned.
C25_MutexReleasedOnce ==
    /\ ~res.fatal
    /\ Cardinality(Holding) <= 1
    /\ b.mu <=> Holding # {}

\* package database: an Exec whose statement failed to render has
\* returned the error and the mutex is free
C25_WitnessDatabase ==
    /\ b.pkg = "database" /\ ~res.fatal /\ ~b.mu
    /\ \E g \in Threads :
         thr[g] = [pc |-> "idle", op |-> "Exec", err |-> ErrInvalidArgNumber, sent |-> FALSE]

\* C28: over the calls of Commit and Rollback, from one goroutine or several,
\* a Rollback that finds the Tx finished returns nil without a call of the
\* driver; the driver transaction receives at most one rollback and none
\* after a commit.
C28_RollbackOnce ==
    res.called \subseteq {"Commit", "Rollback"} =>
        /\ Cardinality({i \in 1..Len(hist) : hist[i] = "rollback"}) <= 1
        /\ \A i, j \in 1..Len(hist) :
               (i < j /\ hist[i] = "commit") => hist[j] # "rollback"
        /\ \A g \in Threads :
               (thr[g].op = "Rollback" /\ thr[g].pc \in {"defer", "idle"}
                  /\ ~thr[g].sent)
                   => (thr[g].err = ErrNil /\ b.done)
        /\ b.done => hist # <<>>

\* a Commit that failed in the driver was followed by a Rollback that
\* returned nil without reaching the driver
C28_WitnessAfterFailedCommit ==
    /\ hist = <<"commit">> /\ b.done
    /\ \E g, h \in Threads :
         /\ thr[g].op = "Commit" /\ thr[g].pc = "idle" /\ thr[g].err = ErrDriver
         /\ thr[h] = [pc |-> "idle", op |-> "Rollback", err |-> ErrNil, sent |-> FALSE]

---------------------------------------------------------------------------
(* internal/buffer: New, WriteString, Write, WriteByte and Release called  *)
(* by holders that release each buffer once and do not use it afterwards.  *)
(*                                                                         *)
(* In this specification bufs is every Buffer allocated so far (its bytes  *)
(* and the capacity of its slice), free is the Buffers lying in the pool,  *)
(* thr is, per holder, the Buffer it holds, what it has written to it and  *)
(* what New handed it, and res is what the last write returned.            *)

MaxWrites == 2      \* writes of a holder to the Buffer it holds

\* "make([]byte, 0, 256)"
InitialCap == 256

\* pool.New
PoolNew == [buf |-> <<>>, cap |-> InitialCap]

\* append(b.buf, s...): the slice grows when its capacity is exceeded
AppendBytes(bf, s) ==
    LET n == Len(bf.buf) + Len(s)
    IN  [buf |-> bf.buf \o s,
         cap |-> IF n <= bf.cap THEN bf.cap
                 ELSE IF 2 * bf.cap >= n THEN 2 * bf.cap ELSE n]

\* a plausible slip: the Buffer is put back as it is
ResliceKept(bf) == bf

\* "b.buf = b.buf[:0]"
Reslice(bf) == [bf EXCEPT !.buf = SubSeq(@, 1, 0)]

\* WriteString: "b.buf = append(b.buf, s...); return len(b.buf), nil"
WriteString(bf, s) ==
    Bind(AppendBytes(bf, s), LAMBDA nb : [b |-> nb, n |-> Len(nb.buf), err |-> ErrNil])

\* Write: "b.buf = append(b.buf, p...); return len(p), nil"
Write(bf, p) == [b |-> AppendBytes(bf, p), n |-> Len(p), err |-> ErrNil]

\* WriteByte: "b.buf = append(b.buf, c); return nil"
WriteByte(bf, c) == [b |-> AppendBytes(bf, <<c>>), n |-> 0, err |-> ErrNil]

\* the holders, and what they write
Holders == {1, 2}
Written1 == {<<>>, AB}

NoBuffer == [id |-> 0, wrote |-> <<>>, got |-> PoolNew, writes |-> 0, n |-> 0]

InitBuffer ==
    /\ bufs = <<>>
    /\ free = {}
    /\ thr = [t \in Holders |-> NoBuffer]
    /\ res = [op |-> "none", n |-> 0, err |-> ErrNil, s |-> <<>>]
    /\ b = NoStmt
    /\ pool = <<>>
    /\ hist = <<>>
    /\ sink = <<>>

\* buffer.New
NewBuffer(t) ==
    /\ thr[t].id = 0 /\ thr[t].n < MaxRenders
    /\ \E g \in PoolGet(free, Len(bufs)) :
         /\ free' = g.free
         /\ bufs' = IF g.id > Len(bufs) THEN Append(bufs, PoolNew) ELSE bufs
         /\ thr' = [thr EXCEPT ![t] = [id |-> g.id, wrote |-> <<>>,
                                       got |-> bufs'[g.id], writes |-> 0,
                                       n |-> thr[t].n + 1]]
    /\ UNCHANGED <<b, pool, res, hist, sink>>

\* the holder t has written: the Buffer, what the holder wrote, the result
Wrote(t, op, s, r) ==
    /\ bufs' = [bufs EXCEPT ![thr[t].id] = r.b]
    /\ thr' = [thr EXCEPT ![t] = [@ EXCEPT !.wrote = @ \o s, !.writes = @ + 1]]
    /\ res' = [op |-> op, n |-> r.n, err |-> r.err, s |-> s]
    /\ UNCHANGED <<b, pool, hist, sink, free>>

CanWrite(t) == thr[t].id # 0 /\ thr[t].writes < MaxWrites

BufferWriteString(t) ==
    /\ CanWrite(t)
    /\ \E s \in Written1 : Wrote(t, "WriteString", s, WriteString(bufs[thr[t].id], s))

BufferWriteBytes(t) ==
    /\ CanWrite(t)
    /\ \E p \in Written1 : Wrote(t, "Write", p, Write(bufs[thr[t].id], p))

BufferWriteByte(t) ==
    /\ CanWrite(t)
    /\ \E c \in {"b"} : Wrote(t, "WriteByte", <<c>>, WriteByte(bufs[thr[t].id], c))

\* Buffer.Release: "b.buf = b.buf[:0]; pool.Put(b)"
ReleaseBuffer(t) ==
    /\ thr[t].id # 0
    /\ bufs' = [bufs EXCEPT ![thr[t].id] = Reslice(@)]
    /\ free' = free \cup {thr[t].id}
    /\ thr' = [thr EXCEPT ![t] = [@ EXCEPT !.id = 0]]
    /\ UNCHANGED <<b, pool, res, hist, sink>>

NextBuffer ==
    \E t \in Holders :
        \/ NewBuffer(t) \/ BufferWriteString(t) \/ BufferWriteBytes(t)
        \/ BufferWriteByte(t) \/ ReleaseBuffer(t)

SpecBuffer == InitBuffer /\ [][NextBuffer]_vars

\* C22: the Buffer New returns has length 0 and a capacity above 0, whoever
\* held it before and whatever was written to it; a holder sees in its Buffer
\* what it wrote itself and nothing else.
C22_NewBufferEmpty ==
    \A t \in Holders :
        thr[t].id # 0 =>
            /\ Len(thr[t].got.buf) = 0
            /\ thr[t].got.cap > 0
            /\ bufs[thr[t].id].buf = thr[t].wrote

\* a holder was handed a Buffer that another holder had written to and
\* released, and has written to it
C22_Witness ==
    \E t \in Holders :
        /\ thr[t].id # 0 /\ thr[t].wrote = <<"b">> /\ thr[t].n = 1
        /\ \E u \in Holders : u # t /\ thr[u].id = 0 /\ thr[u].wrote = AB \o <<"b">>
        /\ Len(bufs) = 1

\* C30: WriteString returns the length of s and no error, as Write returns
\* the length of p.
C30_WriteStringLength ==
    res.op \in {"WriteString", "Write"} => (res.n = Len(res.s) /\ res.err = ErrNil)

\* Write returns the length of p on a Buffer that already holds bytes
C30_WitnessWrite ==
    /\ res.op = "Write" /\ res.n = Len(res.s) /\ res.n > 0
    /\ \E t \in Holders : thr[t].id # 0 /\ Len(thr[t].wrote) > res.n


====
